---- MODULE Spec2Model ----
(***************************************************************************)
(* Model of v1cli's identifier resolution (Settings.get_bookmark and the   *)
(* bookmark operations of Settings), of its schema detection               *)
(* (v1cli.config.schema_detector) and default configurations               *)
(* (v1cli.config.defaults), of its table renderer (v1cli.display) and of   *)
(* its row-reference cache (v1cli.storage.local, v1cli.cli).               *)
(*                                                                         *)
(* Representation.  A Python str is a sequence of one-character strings,   *)
(* so "E-1" is <<"E", "-", "1">>.  An Optional value is a sequence of      *)
(* length at most one: None is <<>> and a present value x is <<x>>.  A     *)
(* dotted field path ("Status.Name") is the sequence of its '.'-separated  *)
(* segments (<<"Status", "Name">>).                                        *)
(***************************************************************************)
EXTENDS Integers, Sequences, FiniteSets, TLC

VARIABLES
    bookmarks,        \* Settings.bookmarks: sequence of ProjectBookmark
    default_project,  \* Settings.default_project: Optional OID
    op,               \* the method that ran last: "init", "get", "add", "remove"
    ident,            \* the identifier (or name) argument of that call
    oid_arg,          \* the oid argument of that call (add_bookmark only, else None)
    result,           \* the value that call returned (Optional bookmark)
    old_bookmarks,    \* Settings.bookmarks when that call started
    old_default,      \* Settings.default_project when that call started
    mode,             \* schema detection: the entry point called ("idle" when none)
    pc,               \* position of that call
    heap,             \* the ColumnConfig objects: object id (position) -> attributes
    heap0,            \* heap when the call started
    desired,          \* arguments of the running call: desired select, filters, columns, sort
    kind,             \* auto_detect_project_config: the asset kind being detected (1..4)
    available,        \* the set get_available_attributes returned
    fetch_result,     \* outcome of the last client.get_asset_attributes call
    fetches,          \* number of client.get_asset_attributes calls made
    probes,           \* number of get_available_attributes calls made
    probe_log,        \* the fetch outcome each returned probe was answered with
    config,           \* the AssetQueryConfig (or column list) returned
    project_config,   \* the ProjectQueryConfig auto_detect_project_config builds
    fn,               \* display and cache: the function or command that ran last
                      \* ("idle" when none)
    args,             \* the arguments of that call
    ret,              \* what the call returned, or the exception it raised
    store,            \* defaults: the list and ColumnConfig objects, object id -> value
    returned,         \* the configurations the get_default_* calls have returned
    edited,           \* positions in returned of the configurations the caller changed
    features_cache,   \* content of features_cache.json (None while there is no file)
    stories_cache,    \* content of stories_cache.json (None while there is no file)
    old_features_cache,  \* features_cache when the last call started
    old_stories_cache,   \* stories_cache when the last call started
    settings_file,    \* content of config.toml: its characters (None while there is no file)
    procs,            \* the CLI processes running against that file: position,
                      \* Settings object in memory, bytes being written
    time_entries,     \* content of time_entries.json (None while there is no file)
    old_time_entries, \* time_entries when the last call started
    path,             \* workflow: the stages a story went through, in order
    status_mapping,   \* Settings.status_mapping: the status OID of each stage (or None)
    story_status_oid, \* the story's Status on the service (None when it has none)
    modal             \* the TUI StatusModal that is open (None when none is)

bmVars == <<bookmarks, default_project, op, ident, oid_arg, result, old_bookmarks,
           old_default>>

detVars == <<mode, pc, heap, heap0, desired, kind, available, fetch_result, fetches,
             probes, probe_log, config, project_config>>

renderVars == <<fn, args, ret>>

defVars == <<store, returned, edited>>

cacheVars == <<features_cache, stories_cache, old_features_cache, old_stories_cache>>

saveVars == <<settings_file, procs>>

timeVars == <<time_entries, old_time_entries>>

wfVars == <<path, status_mapping, story_status_oid, modal>>

restVars == <<saveVars, timeVars, wfVars>>

vars == <<bmVars, detVars, renderVars, defVars, cacheVars, restVars>>

\* the variables the Settings operations leave alone
outsideBm == <<detVars, renderVars, defVars, cacheVars, restVars>>

\* the variables schema detection leaves alone
outsideDet == <<bmVars, renderVars, defVars, cacheVars, restVars>>

\* the variables the display functions leave alone
outsideRender == <<bmVars, detVars, defVars, cacheVars, restVars>>

None == <<>>
Some(x) == <<x>>

\* no display function or cache operation is running, no default
\* configuration was asked for
CallsIdle ==
    /\ fn = "idle"
    /\ args = <<>>
    /\ ret = <<>>

DefaultsIdle ==
    /\ store = <<>>
    /\ returned = <<>>
    /\ edited = {}

CacheIdle ==
    /\ features_cache = None
    /\ stories_cache = None
    /\ old_features_cache = None
    /\ old_stories_cache = None

\* no process works on the settings file
SaveIdle ==
    /\ settings_file = None
    /\ procs = <<>>

TimeIdle ==
    /\ time_entries = None
    /\ old_time_entries = None

WorkflowIdle ==
    /\ path = <<>>
    /\ status_mapping = <<>>
    /\ story_status_oid = None
    /\ modal = None

RestIdle == SaveIdle /\ TimeIdle /\ WorkflowIdle

RenderIdle == CallsIdle /\ DefaultsIdle /\ CacheIdle /\ RestIdle

-----------------------------------------------------------------------------
(* Bounds of the model. *)

MaxBookmarks == 2   \* longest bookmark list the resolver is applied to (short lists)
MaxSettings == 2    \* longest bookmark list of the Settings object being modified
MaxDigits == 3      \* longest all-digit identifier
MaxZeros == 2       \* most leading zeros put in front of a display number
MaxFields == 2      \* longest desired select list and desired column list
LongLen == 100      \* length of the long bookmark lists (positions above 99)

-----------------------------------------------------------------------------
(* Python str methods, on sequences of characters. *)

Digits == {"0", "1", "2", "3", "4", "5", "6", "7", "8", "9"}

DigitVal ==
    ("0" :> 0) @@ ("1" :> 1) @@ ("2" :> 2) @@ ("3" :> 3) @@ ("4" :> 4) @@
    ("5" :> 5) @@ ("6" :> 6) @@ ("7" :> 7) @@ ("8" :> 8) @@ ("9" :> 9)

UpperSeq == <<"A", "B", "C", "D", "E", "F", "G", "H", "I", "J", "K", "L", "M",
              "N", "O", "P", "Q", "R", "S", "T", "U", "V", "W", "X", "Y", "Z">>

LowerSeq == <<"a", "b", "c", "d", "e", "f", "g", "h", "i", "j", "k", "l", "m",
              "n", "o", "p", "q", "r", "s", "t", "u", "v", "w", "x", "y", "z">>

UpperSet == {UpperSeq[i] : i \in DOMAIN UpperSeq}

LowerSet == {LowerSeq[i] : i \in DOMAIN LowerSeq}

LowerChar == [c \in UpperSet |-> LowerSeq[CHOOSE i \in DOMAIN UpperSeq : UpperSeq[i] = c]]

\* str.lower()
Lower(s) == [i \in DOMAIN s |-> IF s[i] \in UpperSet THEN LowerChar[s[i]] ELSE s[i]]

\* str.isdigit(): non-empty and every character a digit
IsDigit(s) == Len(s) > 0 /\ \A i \in DOMAIN s : s[i] \in Digits

\* str.isalpha(): non-empty and every character a letter
IsAlpha(s) == Len(s) > 0 /\ \A i \in DOMAIN s : s[i] \in UpperSet \cup LowerSet

\* int(s) for an all-digit s
RECURSIVE ToInt(_)
ToInt(s) ==
    IF s = <<>> THEN 0
    ELSE 10 * ToInt(SubSeq(s, 1, Len(s) - 1)) + DigitVal[s[Len(s)]]

\* c in s
Contains(s, c) == \E i \in DOMAIN s : s[i] = c

\* s.startswith(p)
StartsWith(s, p) == Len(s) >= Len(p) /\ SubSeq(s, 1, Len(p)) = p

\* s.lstrip("0")
RECURSIVE LStripZeros(_)
LStripZeros(s) ==
    IF s # <<>> /\ s[1] = "0" THEN LStripZeros(Tail(s)) ELSE s

\* s.replace(p, ""): every non-overlapping occurrence of p, left to right
RECURSIVE RemoveAll(_, _)
RemoveAll(s, p) ==
    IF s = <<>> THEN <<>>
    ELSE IF StartsWith(s, p) THEN RemoveAll(SubSeq(s, Len(p) + 1, Len(s)), p)
    ELSE <<s[1]>> \o RemoveAll(Tail(s), p)

\* s.split(c)[0]: the text before the first c (all of s when c is not in s)
SplitFirst(s, c) ==
    IF Contains(s, c)
    THEN SubSeq(s, 1, (CHOOSE i \in DOMAIN s : s[i] = c /\ \A j \in 1..(i - 1) : s[j] # c) - 1)
    ELSE s

\* s.split(c)[-1]: the text after the last c (all of s when c is not in s)
SplitLast(s, c) ==
    IF Contains(s, c)
    THEN SubSeq(s, (CHOOSE i \in DOMAIN s : s[i] = c /\ \A j \in (i + 1)..Len(s) : s[j] # c) + 1, Len(s))
    ELSE s

\* x or "0"
OrZero(s) == IF s = <<>> THEN <<"0">> ELSE s

-----------------------------------------------------------------------------
(* Settings.get_bookmark *)

ProjNumMax == 99

\* position of the first bookmark of bms that satisfies Test (a for loop that
\* returns at the first hit), or 0 when the loop ends without a hit
FirstIndex(bms, Test(_)) ==
    IF \E i \in DOMAIN bms : Test(bms[i])
    THEN CHOOSE i \in DOMAIN bms : Test(bms[i]) /\ \A j \in 1..(i - 1) : ~Test(bms[j])
    ELSE 0

\* oid_num = bookmark.oid.split(":")[-1] if ":" in bookmark.oid else ""
OidNum(oid) == IF Contains(oid, ":") THEN SplitLast(oid, ":") ELSE <<>>

\* IsProjectNumber with the list length taken as an exclusive limit
IsProjectNumber_OffByOne(bms, proj_num) ==
    1 <= proj_num /\ proj_num <= ProjNumMax /\ proj_num < Len(bms)

\* IsProjectNumber without the upper limit of 99
IsProjectNumber_NoCap(bms, proj_num) ==
    1 <= proj_num /\ proj_num <= Len(bms)

\* 1 <= proj_num <= 99 and proj_num <= len(self.bookmarks)
IsProjectNumber(bms, proj_num) ==
    1 <= proj_num /\ proj_num <= ProjNumMax /\ proj_num <= Len(bms)

\* DigitNumber without lstrip("0")
DigitNumber_NoStrip(identifier) == identifier

\* num = identifier.lstrip("0") or "0"
DigitNumber(identifier) == OrZero(LStripZeros(identifier))

\* the loop comparing each bookmark's oid_num with num
MatchOidNum(bms, num) ==
    LET Test(b) == OidNum(b.oid) = num IN FirstIndex(bms, Test)

\* ":" in identifier and identifier.split(":")[0].isalpha()
IsOidToken(identifier) ==
    Contains(identifier, ":") /\ IsAlpha(SplitFirst(identifier, ":"))

\* the final loop: first bookmark whose name matches ignoring case, else None
MatchName(bms, identifier_lower) ==
    LET Test(b) == Lower(b.name) = identifier_lower IN FirstIndex(bms, Test)

\* MatchOidToken without its "return None": an unmatched token is looked up by name
MatchOidToken_FallsToName(bms, identifier) ==
    LET Test(b) == Lower(b.oid) = Lower(identifier)
    IN  IF FirstIndex(bms, Test) # 0 THEN FirstIndex(bms, Test)
        ELSE MatchName(bms, Lower(identifier))

\* the OID-token branch: first bookmark whose oid matches ignoring case, else
\* return None (no later branch runs)
MatchOidToken(bms, identifier) ==
    LET Test(b) == Lower(b.oid) = Lower(identifier) IN FirstIndex(bms, Test)

\* V1Number without lstrip("0")
V1Number_NoStrip(identifier_lower) ==
    OrZero(RemoveAll(identifier_lower, <<"e", "-">>))

\* num = identifier_lower.replace("e-", "").lstrip("0") or "0"
V1Number(identifier_lower) ==
    OrZero(LStripZeros(RemoveAll(identifier_lower, <<"e", "-">>)))

\* get_bookmark, as the position in bms of the bookmark object it returns
\* (0 for None)
get_bookmark_index(bms, identifier) ==
    LET identifier_lower == Lower(identifier)
        afterV1 ==
            IF StartsWith(identifier_lower, <<"e", "-">>)
               /\ MatchOidNum(bms, V1Number(identifier_lower)) # 0
            THEN MatchOidNum(bms, V1Number(identifier_lower))
            ELSE MatchName(bms, identifier_lower)
        afterDigits ==
            IF IsOidToken(identifier) THEN MatchOidToken(bms, identifier)
            ELSE afterV1
    IN  IF IsDigit(identifier)
        THEN IF IsProjectNumber(bms, ToInt(identifier))
             THEN ToInt(identifier)
             ELSE IF MatchOidNum(bms, DigitNumber(identifier)) # 0
                  THEN MatchOidNum(bms, DigitNumber(identifier))
                  ELSE afterDigits
        ELSE afterDigits

get_bookmark(bms, identifier) ==
    LET i == get_bookmark_index(bms, identifier)
    IN  IF i = 0 THEN None ELSE Some(bms[i])

-----------------------------------------------------------------------------
(* Settings.add_bookmark and Settings.remove_bookmark.  Each returns the    *)
(* state of the Settings object after the call and the value returned.      *)

ProjectBookmark(name, oid) == [name |-> name, oid |-> oid, query_config |-> None]

\* list.remove(x): drops the first element equal to x
ListRemove(s, x) ==
    LET i == CHOOSE i \in DOMAIN s : s[i] = x /\ \A j \in 1..(i - 1) : s[j] # x
    IN  SubSeq(s, 1, i - 1) \o SubSeq(s, i + 1, Len(s))

add_bookmark(bms, name, oid) ==
    LET existing == get_bookmark_index(bms, name)
    IN  IF existing # 0
        THEN [bms EXCEPT ![existing].oid = oid]
        ELSE Append(bms, ProjectBookmark(name, oid))

\* remove_bookmark that leaves default_project alone
remove_bookmark_KeepsDefault(bms, dflt, identifier) ==
    LET bookmark == get_bookmark(bms, identifier)
    IN  IF bookmark # None
        THEN [bookmarks |-> ListRemove(bms, bookmark[1]),
              default_project |-> dflt,
              result |-> bookmark]
        ELSE [bookmarks |-> bms, default_project |-> dflt, result |-> None]

remove_bookmark(bms, dflt, identifier) ==
    LET bookmark == get_bookmark(bms, identifier)
    IN  IF bookmark # None
        THEN [bookmarks |-> ListRemove(bms, bookmark[1]),
              default_project |-> IF dflt = Some(bookmark[1].oid) THEN None ELSE dflt,
              result |-> bookmark]
        ELSE [bookmarks |-> bms, default_project |-> dflt, result |-> None]

-----------------------------------------------------------------------------
(* Inputs: strings, bookmarks and identifiers the operations are applied to. *)

Epic == <<"E", "p", "i", "c">>

Oid(prefix, num) == prefix \o <<":">> \o num

n0 == <<"0">>
n1 == <<"1">>
n3 == <<"3">>
n9 == <<"9">>
n100 == <<"1", "0", "0">>

Foo == <<"F", "o", "o">>
Bar == <<"B", "a", "r">>

Configured(b) == [b EXCEPT !.query_config = Some("cfg")]

P1 == ProjectBookmark(Foo, Oid(Epic, n100))
P2 == ProjectBookmark(<<"F", "O", "O">>, Oid(<<"S", "t", "o", "r", "y">>, n100))
P3 == ProjectBookmark(n1, Oid(Epic, n3))
P4 == ProjectBookmark(n100, Oid(Epic, n1))
P5 == ProjectBookmark(<<"E", "-", "0">> \o n100, Oid(Epic, n0))
P6 == ProjectBookmark(Oid(Epic, n100), Oid(<<"e", "p", "i", "c">>, n9))
P7 == ProjectBookmark(Bar, Epic)
P8 == Configured(P1)
P9 == ProjectBookmark(n3, Oid(Epic, n9))
Filler == ProjectBookmark(<<"x">>, Oid(Epic, <<"7">>))

Pool == {P1, P2, P3, P4, P5, P6, P7, P8, P9}

Lists(S, n) == UNION {[1..k -> S] : k \in 0..n}

ShortLists == Lists(Pool, MaxBookmarks)

\* a list longer than 99: P1 (display number 100) at position k, P4 (named
\* "100") at every position above 99
LongList(k) ==
    [i \in 1..LongLen |-> IF i = k THEN P1 ELSE IF i > ProjNumMax THEN P4 ELSE Filler]

LongLists == {LongList(2), LongList(50), LongList(0)}

IdDigits == {"0", "1", "3"}

DigitIds == Lists(IdDigits, MaxDigits) \ {<<>>}

Zeros(z) == [i \in 1..z |-> "0"]

DisplayNums == {n0, n1, n3, n9, n100}

V1Ids ==
    {p \o Zeros(z) \o d : p \in {<<"E", "-">>, <<"e", "-">>}, z \in 0..MaxZeros, d \in DisplayNums}

TokenIds ==
    {Oid(Epic, n100), Oid(<<"e", "p", "i", "c">>, n100), Oid(<<"E", "P", "I", "C">>, n100),
     Oid(<<"S", "t", "o", "r", "y">>, n100), Oid(Epic, n9), Oid(Epic, <<"9", "9", "9">>),
     Oid(n1, n100), Oid(<<"E", "-", "1">>, n100)}

NameIds == {Foo, <<"f", "o", "o">>, Bar, <<"n", "o", "p", "e">>, <<>>}

Identifiers == DigitIds \cup V1Ids \cup TokenIds \cup NameIds

-----------------------------------------------------------------------------
(* The resolver applied to every list and identifier (get_bookmark is pure). *)

\* no schema detection is running
DetectIdle ==
    /\ mode = "idle"
    /\ pc = "idle"
    /\ heap = <<>>
    /\ heap0 = <<>>
    /\ desired = <<>>
    /\ kind = 0
    /\ available = {}
    /\ fetch_result = <<>>
    /\ fetches = 0
    /\ probes = 0
    /\ probe_log = <<>>
    /\ config = <<>>
    /\ project_config = <<>>

InitResolve ==
    /\ DetectIdle
    /\ RenderIdle
    /\ bookmarks \in ShortLists \cup LongLists
    /\ default_project = None
    /\ op = "init"
    /\ ident = <<>>
    /\ oid_arg = None
    /\ result = None
    /\ old_bookmarks = bookmarks
    /\ old_default = None

Resolve(identifier) ==
    /\ op = "init"
    /\ op' = "get"
    /\ ident' = identifier
    /\ oid_arg' = None
    /\ result' = get_bookmark(bookmarks, identifier)
    /\ old_bookmarks' = bookmarks
    /\ old_default' = default_project
    /\ UNCHANGED <<bookmarks, default_project>>
    /\ UNCHANGED outsideBm

NextResolve == \E identifier \in Identifiers : Resolve(identifier)

SpecResolve == InitResolve /\ [][NextResolve]_vars

-----------------------------------------------------------------------------
(* A Settings object under a sequence of get_bookmark, add_bookmark and     *)
(* remove_bookmark calls.  The object starts as Settings.model_validate     *)
(* loads it from a configuration file: any bookmark list, any default.      *)

SettingsPool == {P1, P3, P8}

SettingsDefaults == {None, Some(Oid(Epic, n100)), Some(Oid(Epic, n3))}

SettingsIds ==
    {n1, <<"2">>, n3, n100, <<"E", "-">> \o n100, <<"e", "-", "0", "0">> \o n3,
     Oid(<<"e", "p", "i", "c">>, n100), Oid(Epic, n9), Foo, <<"n", "o", "p", "e">>}

AddNames == {<<"f", "o", "o">>, n1}

AddOids == {Oid(Epic, n3), Oid(Epic, n9)}

Init ==
    /\ DetectIdle
    /\ RenderIdle
    /\ bookmarks \in Lists(SettingsPool, MaxSettings)
    /\ default_project \in SettingsDefaults
    /\ op = "init"
    /\ ident = <<>>
    /\ oid_arg = None
    /\ result = None
    /\ old_bookmarks = bookmarks
    /\ old_default = default_project

GetBookmark(identifier) ==
    /\ op' = "get"
    /\ ident' = identifier
    /\ oid_arg' = None
    /\ result' = get_bookmark(bookmarks, identifier)
    /\ old_bookmarks' = bookmarks
    /\ old_default' = default_project
    /\ UNCHANGED <<bookmarks, default_project>>
    /\ UNCHANGED outsideBm

\* the call updates a bookmark, or the list is shorter than n and may grow
Fits(name, n) == get_bookmark_index(bookmarks, name) # 0 \/ Len(bookmarks) < n

AddBookmark(name, oid) ==
    /\ op' = "add"
    /\ ident' = name
    /\ oid_arg' = Some(oid)
    /\ result' = None
    /\ old_bookmarks' = bookmarks
    /\ old_default' = default_project
    /\ bookmarks' = add_bookmark(bookmarks, name, oid)
    /\ UNCHANGED default_project
    /\ UNCHANGED outsideBm

RemoveBookmark(identifier) ==
    LET r == remove_bookmark(bookmarks, default_project, identifier)
    IN  /\ op' = "remove"
        /\ ident' = identifier
        /\ oid_arg' = None
        /\ result' = r.result
        /\ old_bookmarks' = bookmarks
        /\ old_default' = default_project
        /\ bookmarks' = r.bookmarks
        /\ default_project' = r.default_project
        /\ UNCHANGED outsideBm

Next ==
    \/ \E identifier \in SettingsIds : GetBookmark(identifier)
    \/ \E name \in AddNames, oid \in AddOids :
            Fits(name, MaxSettings) /\ AddBookmark(name, oid)
    \/ \E identifier \in SettingsIds : RemoveBookmark(identifier)

Spec == Init /\ [][Next]_vars

-----------------------------------------------------------------------------
(* A Settings object that starts without bookmarks (Settings(), the state   *)
(* before any configuration file exists) under add_bookmark and             *)
(* remove_bookmark calls: every list it holds was built by the two methods. *)

MaxFresh == 3       \* longest bookmark list built from an empty Settings object

AB == <<"a", ":", "b">>

\* names given to add_bookmark: all digits, plain (in two letter cases),
\* starting with 'E-', containing a colon
FreshNames == {<<"2">>, Foo, <<"f", "o", "o">>, <<"E", "-", "9">>, AB}

FreshIds == {n1, <<"2">>, n3, Foo, <<"e", "-", "9">>}

InitFresh ==
    /\ DetectIdle
    /\ RenderIdle
    /\ bookmarks = <<>>
    /\ default_project = None
    /\ op = "init"
    /\ ident = <<>>
    /\ oid_arg = None
    /\ result = None
    /\ old_bookmarks = <<>>
    /\ old_default = None

NextFresh ==
    \/ \E name \in FreshNames, oid \in AddOids :
            Fits(name, MaxFresh) /\ AddBookmark(name, oid)
    \/ \E identifier \in FreshIds : RemoveBookmark(identifier)

SpecFresh == InitFresh /\ [][NextFresh]_vars

-----------------------------------------------------------------------------
(* The commands that write bookmarks and the default project:               *)
(* LocalStorage.add_project_bookmark, LocalStorage.remove_project_bookmark  *)
(* and 'v1 projects default'.  Each loads the Settings object, changes it   *)
(* and saves it; within one process the object and the file agree.          *)

MaxProjects == 2    \* longest bookmark list these commands build

\* str.upper() of the first two characters is "E-"
StartsWithEDash(s) == StartsWith(Lower(s), <<"e", "-">>)

\* identifier.upper().startswith("E-") or identifier.replace("-", "").isdigit()
is_number(identifier) ==
    StartsWithEDash(identifier) \/ IsDigit(RemoveAll(identifier, <<"-">>))

\* what client.get_project_by_number can do: raise, return None, return a Project
Project(name, oid) == [name |-> name, oid |-> oid]

NoProject == [raised |-> FALSE, project |-> None]

Found(project) == [raised |-> FALSE, project |-> Some(project)]

RequestFails == [raised |-> TRUE, project |-> None]

\* set_default_project(oid)
set_default_project(oid) == Some(oid)

\* projects_default that sets the default without bookmarking the project
projects_default_NoBookmark(bms, dflt, identifier, answer) ==
    LET bookmark == get_bookmark(bms, identifier)
    IN  IF bookmark # None
        THEN [bookmarks |-> bms, default_project |-> set_default_project(bookmark[1].oid),
              result |-> bookmark, exit_code |-> 0]
        ELSE IF is_number(identifier) /\ ~answer.raised /\ answer.project # None
        THEN [bookmarks |-> bms,
              default_project |-> set_default_project(answer.project[1].oid),
              result |-> None, exit_code |-> 0]
        ELSE [bookmarks |-> bms, default_project |-> dflt, result |-> None, exit_code |-> 1]

\* 'v1 projects default <identifier>': the Settings after the run, the bookmark
\* found locally and the exit code; answer is what the service does when asked
projects_default(bms, dflt, identifier, answer) ==
    LET bookmark == get_bookmark(bms, identifier)
    IN  IF bookmark # None
        THEN [bookmarks |-> bms, default_project |-> set_default_project(bookmark[1].oid),
              result |-> bookmark, exit_code |-> 0]
        ELSE IF is_number(identifier) /\ ~answer.raised /\ answer.project # None
        THEN [bookmarks |-> add_bookmark(bms, answer.project[1].name, answer.project[1].oid),
              default_project |-> set_default_project(answer.project[1].oid),
              result |-> None, exit_code |-> 0]
        ELSE [bookmarks |-> bms, default_project |-> dflt, result |-> None, exit_code |-> 1]

ProjectNames == {Foo, <<"2">>}

ProjectIds == {n1, Foo, <<"E", "-", "9">>, n9}

Answers ==
    {NoProject, RequestFails, Found(Project(Bar, Oid(Epic, n9))),
     Found(Project(<<"2">>, Oid(Epic, n1)))}

InitProjects ==
    /\ DetectIdle
    /\ RenderIdle
    /\ bookmarks = <<>>
    /\ default_project = None
    /\ op = "init"
    /\ ident = <<>>
    /\ oid_arg = None
    /\ result = None
    /\ old_bookmarks = <<>>
    /\ old_default = None

\* storage.add_project_bookmark(name, oid)
AddProjectBookmark(name, oid) ==
    /\ op' = "add"
    /\ ident' = name
    /\ oid_arg' = Some(oid)
    /\ result' = None
    /\ old_bookmarks' = bookmarks
    /\ old_default' = default_project
    /\ bookmarks' = add_bookmark(bookmarks, name, oid)
    /\ UNCHANGED default_project
    /\ fn' = "add_project_bookmark"
    /\ args' = <<>>
    /\ ret' = <<>>
    /\ UNCHANGED <<detVars, defVars, cacheVars, restVars>>

\* storage.remove_project_bookmark(identifier)
RemoveProjectBookmark(identifier) ==
    LET r == remove_bookmark(bookmarks, default_project, identifier)
    IN  /\ op' = "remove"
        /\ ident' = identifier
        /\ oid_arg' = None
        /\ result' = r.result
        /\ old_bookmarks' = bookmarks
        /\ old_default' = default_project
        /\ bookmarks' = r.bookmarks
        /\ default_project' = r.default_project
        /\ fn' = "remove_project_bookmark"
        /\ args' = <<>>
        /\ ret' = <<>>
        /\ UNCHANGED <<detVars, defVars, cacheVars, restVars>>

ProjectsDefault(identifier, answer) ==
    LET r == projects_default(bookmarks, default_project, identifier, answer)
    IN  /\ op' = "default"
        /\ ident' = identifier
        /\ oid_arg' = None
        /\ result' = r.result
        /\ old_bookmarks' = bookmarks
        /\ old_default' = default_project
        /\ bookmarks' = r.bookmarks
        /\ default_project' = r.default_project
        /\ fn' = "projects_default"
        /\ args' = [identifier |-> identifier, answer |-> answer]
        /\ ret' = [exit_code |-> r.exit_code]
        /\ UNCHANGED <<detVars, defVars, cacheVars, restVars>>

NextProjects ==
    \/ \E name \in ProjectNames, oid \in AddOids :
            Fits(name, MaxProjects) /\ AddProjectBookmark(name, oid)
    \/ \E identifier \in ProjectIds : RemoveProjectBookmark(identifier)
    \/ \E identifier \in ProjectIds, answer \in Answers :
            /\ Len(projects_default(bookmarks, default_project, identifier, answer).bookmarks)
                  <= MaxProjects
            /\ ProjectsDefault(identifier, answer)

SpecProjects == InitProjects /\ [][NextProjects]_vars

-----------------------------------------------------------------------------
(* v1cli.config.schema_detector.  A ColumnConfig is an object on the heap;  *)
(* a list of columns is a sequence of object ids.                           *)

ColumnConfig(field, label, style, max_width, format, justify) ==
    [field |-> field, label |-> label, style |-> style, max_width |-> max_width,
     format |-> format, justify |-> justify]

\* field.split(".")[0]
BaseField(field) == field[1]

\* col.model_copy(): a new object with the attributes of object id
ModelCopy(h, id) == Append(h, h[id])

\* filter_valid_fields that looks the whole dotted path up in the schema
RECURSIVE filter_valid_fields_WholePath(_, _)
filter_valid_fields_WholePath(desired_fields, available_attrs) ==
    IF desired_fields = <<>> THEN <<>>
    ELSE (IF Len(Head(desired_fields)) = 1 /\ Head(desired_fields)[1] \in available_attrs
          THEN <<Head(desired_fields)>> ELSE <<>>)
         \o filter_valid_fields_WholePath(Tail(desired_fields), available_attrs)

RECURSIVE filter_valid_fields(_, _)
filter_valid_fields(desired_fields, available_attrs) ==
    IF desired_fields = <<>> THEN <<>>
    ELSE (IF BaseField(Head(desired_fields)) \in available_attrs
          THEN <<Head(desired_fields)>> ELSE <<>>)
         \o filter_valid_fields(Tail(desired_fields), available_attrs)

\* the loop of filter_valid_columns: valid_columns so far and the heap so far
RECURSIVE ValidColumnsLoop(_, _, _, _)
ValidColumnsLoop(cols, available_attrs, h, valid_columns) ==
    IF cols = <<>> THEN [columns |-> valid_columns, heap |-> h]
    ELSE IF BaseField(h[Head(cols)].field) \in available_attrs
         THEN ValidColumnsLoop(Tail(cols), available_attrs, ModelCopy(h, Head(cols)),
                               Append(valid_columns, Len(h) + 1))
         ELSE ValidColumnsLoop(Tail(cols), available_attrs, h, valid_columns)

\* filter_valid_columns that appends col itself, not col.model_copy()
filter_valid_columns_NoCopy(desired_columns, available_attrs, h) ==
    [columns |-> SelectSeq(desired_columns,
                           LAMBDA id : BaseField(h[id].field) \in available_attrs),
     heap |-> h]

filter_valid_columns(desired_columns, available_attrs, h) ==
    ValidColumnsLoop(desired_columns, available_attrs, h, <<>>)

\* [c.model_copy() for c in default_columns]
RECURSIVE CopyColumns(_, _, _)
CopyColumns(cols, h, copies) ==
    IF cols = <<>> THEN [columns |-> copies, heap |-> h]
    ELSE CopyColumns(Tail(cols), ModelCopy(h, Head(cols)), Append(copies, Len(h) + 1))

AssetQueryConfig(select, filters, sort, columns) ==
    [select |-> select, filters |-> filters, sort |-> sort, columns |-> columns]

\* the body of get_available_attributes once client.get_asset_attributes has
\* answered: the set of names, or the empty set when the call raised
get_available_attributes_Propagates(res) ==
    IF res.ok
    THEN [raised |-> FALSE, value |-> {res.attributes[i] : i \in DOMAIN res.attributes}]
    ELSE [raised |-> TRUE, value |-> {}]

get_available_attributes(res) ==
    IF res.ok
    THEN [raised |-> FALSE, value |-> {res.attributes[i] : i \in DOMAIN res.attributes}]
    ELSE [raised |-> FALSE, value |-> {}]

\* detect_asset_config without the "if not available" branch
detect_asset_config_NoFallback(d, available_attrs, h) ==
    LET valid_columns == filter_valid_columns(d.columns, available_attrs, h)
    IN  [config |-> AssetQueryConfig(filter_valid_fields(d.select, available_attrs),
                                     d.filters,
                                     filter_valid_fields(d.sort, available_attrs),
                                     valid_columns.columns),
         heap |-> valid_columns.heap]

\* detect_asset_config after "available = await get_available_attributes(...)"
detect_asset_config(d, available_attrs, h) ==
    IF available_attrs = {}
    THEN LET copies == CopyColumns(d.columns, h, <<>>)
         IN  [config |-> AssetQueryConfig(d.select, d.filters, d.sort, copies.columns),
              heap |-> copies.heap]
    ELSE LET valid_columns == filter_valid_columns(d.columns, available_attrs, h)
         IN  [config |-> AssetQueryConfig(filter_valid_fields(d.select, available_attrs),
                                          d.filters,
                                          filter_valid_fields(d.sort, available_attrs),
                                          valid_columns.columns),
              heap |-> valid_columns.heap]

-----------------------------------------------------------------------------
(* v1cli.config.defaults: the module-level default lists. *)

F(a) == <<a>>
F2(a, b) == <<a, b>>

DEFAULT_DELIVERY_GROUP_SELECT ==
    <<F("Name"), F("Number"), F2("Status", "Name"), F("PlannedStart"), F("PlannedEnd")>>

DEFAULT_DELIVERY_GROUP_FILTERS == <<"Category.Name='Delivery Group'">>

DEFAULT_DELIVERY_GROUP_COLUMNS ==
    <<ColumnConfig(F("Number"), Some("Number"), Some("cyan"), None, None, "left"),
      ColumnConfig(F("Name"), Some("Name"), None, Some(40), None, "left"),
      ColumnConfig(F2("Status", "Name"), Some("Status"), None, None, None, "left"),
      ColumnConfig(F("PlannedStart"), Some("Start"), None, None, Some("date"), "left"),
      ColumnConfig(F("PlannedEnd"), Some("End"), None, None, Some("date"), "left")>>

DEFAULT_FEATURE_SELECT ==
    <<F("Number"), F("Name"), F("Description"), F2("Status", "Name"), F("Status"),
      F2("Scope", "Name"), F("Scope"), F2("Super", "Name")>>

DEFAULT_FEATURE_FILTERS == <<"Category.Name!='Delivery Group'">>

DEFAULT_FEATURE_COLUMNS ==
    <<ColumnConfig(F("Number"), Some("Number"), Some("cyan"), None, None, "left"),
      ColumnConfig(F("Name"), Some("Name"), None, Some(50), None, "left"),
      ColumnConfig(F2("Status", "Name"), Some("Status"), None, None, None, "left"),
      ColumnConfig(F2("Scope", "Name"), Some("Project"), Some("dim"), None, None, "left")>>

DEFAULT_STORY_SELECT ==
    <<F("Number"), F("Name"), F("Description"), F2("Status", "Name"), F("Status"),
      F2("Scope", "Name"), F("Scope"), F2("Owners", "Name"), F("Owners"),
      F2("Super", "Name"), F("Super"), F("Estimate")>>

DEFAULT_STORY_FILTERS == <<>>

DEFAULT_STORY_COLUMNS ==
    <<ColumnConfig(F("Number"), Some("Number"), Some("cyan"), None, None, "left"),
      ColumnConfig(F2("Status", "Name"), Some("Status"), None, None, None, "left"),
      ColumnConfig(F("Name"), Some("Name"), None, Some(40), None, "left"),
      ColumnConfig(F("Estimate"), Some("Pts"), None, None, Some("points"), "right"),
      ColumnConfig(F2("Scope", "Name"), Some("Project"), Some("dim"), None, None, "left")>>

DEFAULT_TASK_SELECT ==
    <<F("Number"), F("Name"), F("Parent"), F2("Parent", "Number"), F2("Status", "Name"),
      F("Status"), F2("Owners", "Name"), F("ToDo"), F("Actuals")>>

DEFAULT_TASK_FILTERS == <<>>

DEFAULT_TASK_COLUMNS ==
    <<ColumnConfig(F("Number"), Some("Number"), Some("cyan"), None, None, "left"),
      ColumnConfig(F("Name"), Some("Name"), None, Some(40), None, "left"),
      ColumnConfig(F2("Status", "Name"), Some("Status"), None, None, None, "left"),
      ColumnConfig(F("Actuals"), Some("Done"), None, None, Some("hours"), "right"),
      ColumnConfig(F("ToDo"), Some("Todo"), None, None, Some("hours"), "right")>>

\* the heap once v1cli.config.defaults is imported: the default columns of the
\* four kinds, in the order the module creates them
DefaultsHeap ==
    DEFAULT_DELIVERY_GROUP_COLUMNS \o DEFAULT_FEATURE_COLUMNS
        \o DEFAULT_STORY_COLUMNS \o DEFAULT_TASK_COLUMNS

\* ids of n objects that follow the first k objects of the heap
Ids(k, n) == [i \in 1..n |-> k + i]

DeliveryGroupColumnIds == Ids(0, Len(DEFAULT_DELIVERY_GROUP_COLUMNS))

FeatureColumnIds == Ids(Len(DEFAULT_DELIVERY_GROUP_COLUMNS), Len(DEFAULT_FEATURE_COLUMNS))

StoryColumnIds ==
    Ids(Len(DEFAULT_DELIVERY_GROUP_COLUMNS) + Len(DEFAULT_FEATURE_COLUMNS),
        Len(DEFAULT_STORY_COLUMNS))

TaskColumnIds ==
    Ids(Len(DEFAULT_DELIVERY_GROUP_COLUMNS) + Len(DEFAULT_FEATURE_COLUMNS)
            + Len(DEFAULT_STORY_COLUMNS),
        Len(DEFAULT_TASK_COLUMNS))

DetectArgs(asset_type, select, filters, columns, sort) ==
    [asset_type |-> asset_type, select |-> select, filters |-> filters,
     columns |-> columns, sort |-> sort]

\* KindArgs with the story defaults passed for the task kind as well
KindArgs_StoryForTask(k) ==
    CASE k = 1 -> DetectArgs("Epic", DEFAULT_DELIVERY_GROUP_SELECT, DEFAULT_DELIVERY_GROUP_FILTERS,
                             DeliveryGroupColumnIds, <<F("PlannedStart"), F("Name")>>)
      [] k = 2 -> DetectArgs("Epic", DEFAULT_FEATURE_SELECT, DEFAULT_FEATURE_FILTERS,
                             FeatureColumnIds, <<F("-ChangeDateUTC")>>)
      [] k = 3 -> DetectArgs("Story", DEFAULT_STORY_SELECT, DEFAULT_STORY_FILTERS,
                             StoryColumnIds, <<F("-ChangeDateUTC")>>)
      [] k = 4 -> DetectArgs("Task", DEFAULT_STORY_SELECT, DEFAULT_STORY_FILTERS,
                             StoryColumnIds, <<F("Order")>>)

\* the arguments of the four detect_asset_config calls of
\* auto_detect_project_config: delivery_groups, features, stories, tasks
KindArgs(k) ==
    CASE k = 1 -> DetectArgs("Epic", DEFAULT_DELIVERY_GROUP_SELECT, DEFAULT_DELIVERY_GROUP_FILTERS,
                             DeliveryGroupColumnIds, <<F("PlannedStart"), F("Name")>>)
      [] k = 2 -> DetectArgs("Epic", DEFAULT_FEATURE_SELECT, DEFAULT_FEATURE_FILTERS,
                             FeatureColumnIds, <<F("-ChangeDateUTC")>>)
      [] k = 3 -> DetectArgs("Story", DEFAULT_STORY_SELECT, DEFAULT_STORY_FILTERS,
                             StoryColumnIds, <<F("-ChangeDateUTC")>>)
      [] k = 4 -> DetectArgs("Task", DEFAULT_TASK_SELECT, DEFAULT_TASK_FILTERS,
                             TaskColumnIds, <<F("Order")>>)

Kinds == 1..4

\* ProjectQueryConfig(last_detected=...): version 1, four empty AssetQueryConfig
ProjectQueryConfig(last_detected) ==
    [version |-> 1, last_detected |-> last_detected,
     kinds |-> [k \in Kinds |-> AssetQueryConfig(<<>>, <<>>, <<>>, <<>>)]]

-----------------------------------------------------------------------------
(* Schema detection as a process: a direct call of filter_valid_columns, a  *)
(* call of detect_asset_config, or a call of auto_detect_project_config,    *)
(* each followed by the caller changing a column it was handed.             *)

BookmarksIdle ==
    /\ bookmarks = <<>>
    /\ default_project = None
    /\ op = "idle"
    /\ ident = <<>>
    /\ oid_arg = None
    /\ result = None
    /\ old_bookmarks = <<>>
    /\ old_default = None

TestHeap ==
    <<ColumnConfig(F("Name"), Some("Title"), None, Some(40), None, "left"),
      ColumnConfig(F2("Status", "Name"), Some("Status"), Some("cyan"), None, None, "left"),
      ColumnConfig(F2("Ghost", "Name"), None, None, None, Some("date"), "right")>>

TestFields == {F("Name"), F2("Status", "Name"), F2("Ghost", "Name")}

SortChoices == {<<>>, <<F("Name"), F("Ghost")>>, <<F("-Name"), F2("Status", "Name")>>}

FilterChoices == {<<>>, <<"Status.Name!='Done'">>}

FullAttrs ==
    <<"Actuals", "Category", "ChangeDateUTC", "Estimate", "Name", "Number", "Order", "Owners",
      "Parent", "PlannedEnd", "PlannedStart", "Scope", "Status", "Super", "ToDo">>

AttrLists ==
    {<<>>, <<"Name">>, <<"Status">>, <<"Name", "Number", "Status">>, FullAttrs}

\* what client.get_asset_attributes can do: return a list of attributes or raise
FetchOutcomes ==
    {[ok |-> FALSE, attributes |-> <<>>]} \cup {[ok |-> TRUE, attributes |-> a] : a \in AttrLists}

AvailableSets == {{a[i] : i \in DOMAIN a} : a \in AttrLists}

Timestamps == {"2024-05-01T10:00:00+00:00", "2025-01-01T00:00:00+00:00"}

InitDetect ==
    /\ BookmarksIdle
    /\ RenderIdle
    /\ kind = 0
    /\ fetch_result = <<>>
    /\ fetches = 0
    /\ probes = 0
    /\ probe_log = <<>>
    /\ config = <<>>
    /\ project_config = <<>>
    /\ \/ /\ mode = "filter"
          /\ pc = "start"
          /\ heap = TestHeap
          /\ available \in AvailableSets
          /\ \E cols \in Lists(DOMAIN TestHeap, MaxFields) :
                desired = DetectArgs("", <<>>, <<>>, cols, <<>>)
       \/ /\ mode = "detect"
          /\ pc = "start"
          /\ heap = TestHeap
          /\ available = {}
          /\ \E select \in Lists(TestFields, MaxFields), filters \in FilterChoices,
                cols \in Lists(DOMAIN TestHeap, MaxFields), sort \in SortChoices :
                desired = DetectArgs("Story", select, filters, cols, sort)
       \/ /\ mode = "auto"
          /\ pc = "init"
          /\ heap = DefaultsHeap
          /\ available = {}
          /\ desired = <<>>
    /\ heap0 = heap

\* filter_valid_columns(desired_columns, available_attrs), called directly
FilterColumns ==
    /\ mode = "filter" /\ pc = "start"
    /\ LET r == filter_valid_columns(desired.columns, available, heap)
       IN  /\ config' = r.columns
           /\ heap' = r.heap
    /\ pc' = "done"
    /\ UNCHANGED <<mode, heap0, desired, kind, available, fetch_result, fetches, probes,
                   probe_log, project_config>>
    /\ UNCHANGED outsideDet

\* auto_detect_project_config up to its first detect_asset_config call
AutoStart(now) ==
    /\ mode = "auto" /\ pc = "init"
    /\ project_config' = ProjectQueryConfig(Some(now))
    /\ kind' = 1
    /\ desired' = KindArgs(1)
    /\ pc' = "start"
    /\ UNCHANGED <<mode, heap, heap0, available, fetch_result, fetches, probes, probe_log, config>>
    /\ UNCHANGED outsideDet

\* detect_asset_config calls get_available_attributes
CallProbe ==
    /\ mode \in {"detect", "auto"} /\ pc = "start"
    /\ probes' = probes + 1
    /\ pc' = "fetching"
    /\ UNCHANGED <<mode, heap, heap0, desired, kind, available, fetch_result, fetches,
                   probe_log, config, project_config>>
    /\ UNCHANGED outsideDet

\* client.get_asset_attributes(asset_type) answers
ClientFetch(outcome) ==
    /\ pc = "fetching"
    /\ fetch_result' = outcome
    /\ fetches' = fetches + 1
    /\ pc' = "fetched"
    /\ UNCHANGED <<mode, heap, heap0, desired, kind, available, probes, probe_log, config,
                   project_config>>
    /\ UNCHANGED outsideDet

\* get_available_attributes returns to detect_asset_config, or raises through
\* it and its caller
ProbeReturn ==
    /\ pc = "fetched"
    /\ LET r == get_available_attributes(fetch_result)
       IN  /\ pc' = IF r.raised THEN "crashed" ELSE "build"
           /\ available' = r.value
    /\ probe_log' = Append(probe_log, fetch_result)
    /\ UNCHANGED <<mode, heap, heap0, desired, kind, fetch_result, fetches, probes, config,
                   project_config>>
    /\ UNCHANGED outsideDet

\* the rest of detect_asset_config, and of its caller up to the next call
Build ==
    /\ pc = "build"
    /\ LET r == detect_asset_config(desired, available, heap)
       IN  /\ heap' = r.heap
           /\ IF mode = "detect"
              THEN /\ config' = r.config
                   /\ pc' = "done"
                   /\ UNCHANGED <<project_config, kind, desired>>
              ELSE /\ project_config' = [project_config EXCEPT !.kinds[kind] = r.config]
                   /\ config' = config
                   /\ IF kind < 4
                      THEN /\ kind' = kind + 1
                           /\ desired' = KindArgs(kind + 1)
                           /\ pc' = "start"
                      ELSE /\ pc' = "done"
                           /\ UNCHANGED <<kind, desired>>
    /\ UNCHANGED <<mode, heap0, available, fetch_result, fetches, probes, probe_log>>
    /\ UNCHANGED outsideDet

Range(s) == {s[i] : i \in DOMAIN s}

\* ids of the column objects the finished call handed to its caller
ReturnedColumns ==
    CASE mode = "filter" -> Range(config)
      [] mode = "detect" -> Range(config.columns)
      [] mode = "auto" -> UNION {Range(project_config.kinds[k].columns) : k \in Kinds}
      [] OTHER -> {}

\* the caller assigns to an attribute of a column it was handed
ModifyColumn(id) ==
    /\ pc = "done"
    /\ id \in ReturnedColumns
    /\ heap' = [heap EXCEPT ![id].label = Some("changed"), ![id].max_width = Some(1)]
    /\ pc' = "modified"
    /\ UNCHANGED <<mode, heap0, desired, kind, available, fetch_result, fetches, probes,
                   probe_log, config, project_config>>
    /\ UNCHANGED outsideDet

NextDetect ==
    \/ FilterColumns
    \/ \E now \in Timestamps : AutoStart(now)
    \/ CallProbe
    \/ \E outcome \in FetchOutcomes : ClientFetch(outcome)
    \/ ProbeReturn
    \/ Build
    \/ \E id \in DOMAIN heap : ModifyColumn(id)

SpecDetect == InitDetect /\ [][NextDetect]_vars

-----------------------------------------------------------------------------
(* The table renderer (v1cli.display).  Python values are tagged: None, a   *)
(* str (sequence of characters), an int, a float, a list (sequence of       *)
(* values) and a dict (sequence of <<key, value>> pairs in insertion order, *)
(* keys pairwise different).                                                *)

PyNone == [t |-> "none", v |-> <<>>]
PyStr(s) == [t |-> "str", v |-> s]
PyInt(n) == [t |-> "int", v |-> n]
PyFloat(x) == [t |-> "float", v |-> x]
PyList(l) == [t |-> "list", v |-> l]
PyDict(d) == [t |-> "dict", v |-> d]

\* key in d
DictHas(d, key) == \E i \in DOMAIN d : d[i][1] = key

\* d[key]
DictLookup(d, key) == d[CHOOSE i \in DOMAIN d : d[i][1] = key][2]

\* d.get(key)
DictGet(d, key) == IF DictHas(d, key) THEN DictLookup(d, key) ELSE PyNone

\* s.split(c)
RECURSIVE Split(_, _)
Split(s, c) ==
    IF Contains(s, c)
    THEN <<SplitFirst(s, c)>> \o Split(SubSeq(s, Len(SplitFirst(s, c)) + 2, Len(s)), c)
    ELSE <<s>>

\* the loop of get_nested_field over the remaining parts
RECURSIVE Traverse(_, _)
Traverse(value, parts) ==
    IF parts = <<>> THEN value
    ELSE IF value.t = "none" THEN PyNone
    ELSE IF value.t = "dict" THEN Traverse(DictGet(value.v, Head(parts)), Tail(parts))
    ELSE PyNone

\* get_nested_field that walks the structure before trying the dotted key
get_nested_field_WalkFirst(item, field) ==
    IF ~Contains(field, ".") THEN DictGet(item, field)
    ELSE IF Traverse(PyDict(item), Split(field, ".")) # PyNone
         THEN Traverse(PyDict(item), Split(field, "."))
         ELSE DictGet(item, field)

get_nested_field(item, field) ==
    IF ~Contains(field, ".") THEN DictGet(item, field)
    ELSE IF DictHas(item, field) THEN DictLookup(item, field)
    ELSE Traverse(PyDict(item), Split(field, "."))

-----------------------------------------------------------------------------
(* Python numbers and their text.  A float is its kind ("fin", "inf",       *)
(* "nan"), its sign and, when finite, its magnitude in quarters (q / 4):    *)
(* binary floating point holds the multiples of 1/4 of small magnitude and  *)
(* their products with 100 exactly.  Numerals with another fraction, with   *)
(* an exponent or with digit separators are not among the model's inputs.   *)

Float(k, neg, q) == [k |-> k, neg |-> neg, q |-> q]

DigitSeq == <<"0", "1", "2", "3", "4", "5", "6", "7", "8", "9">>

\* str(n) for an int n >= 0
RECURSIVE NatStr(_)
NatStr(n) == IF n < 10 THEN <<DigitSeq[n + 1]>> ELSE NatStr(n \div 10) \o <<DigitSeq[(n % 10) + 1]>>

\* str(n) for an int n
IntStr(n) == IF n < 0 THEN <<"-">> \o NatStr(-n) ELSE NatStr(n)

\* sep.join(strs)
RECURSIVE Join(_, _)
Join(sep, strs) ==
    IF strs = <<>> THEN <<>>
    ELSE IF Len(strs) = 1 THEN strs[1]
    ELSE strs[1] \o sep \o Join(sep, Tail(strs))

\* s.strip() for the whitespace character ' '
RECURSIVE Strip(_)
Strip(s) ==
    IF s # <<>> /\ s[1] = " " THEN Strip(Tail(s))
    ELSE IF s # <<>> /\ s[Len(s)] = " " THEN Strip(SubSeq(s, 1, Len(s) - 1))
    ELSE s

\* s[:k]
PySliceTo(s, k) ==
    IF k >= 0 THEN SubSeq(s, 1, IF k < Len(s) THEN k ELSE Len(s))
    ELSE SubSeq(s, 1, IF Len(s) + k > 0 THEN Len(s) + k ELSE 0)

\* the fraction digits fr as a number of quarters (fr is "", "25", "5" or
\* "75" followed by zeros)
FracQuarters(fr) ==
    LET d == [i \in 1..2 |-> IF i <= Len(fr) THEN DigitVal[fr[i]] ELSE 0]
    IN  (10 * d[1] + d[2]) \div 25

\* an unsigned decimal numeral: digits, optionally a point and digits, at
\* least one digit in all
IsNumeral(s) ==
    LET ip == SplitFirst(s, ".")
        fp == IF Contains(s, ".") THEN SubSeq(s, Len(ip) + 2, Len(s)) ELSE <<>>
    IN  /\ \A i \in DOMAIN ip : ip[i] \in Digits
        /\ \A i \in DOMAIN fp : fp[i] \in Digits
        /\ Len(ip) + Len(fp) > 0

\* float(s) for a str s: [ok |-> FALSE] stands for ValueError
ParseFloat(s) ==
    LET t == Strip(s)
        signed == t # <<>> /\ t[1] \in {"+", "-"}
        neg == t # <<>> /\ t[1] = "-"
        body == IF signed THEN Tail(t) ELSE t
        ip == SplitFirst(body, ".")
        fp == IF Contains(body, ".") THEN SubSeq(body, Len(ip) + 2, Len(body)) ELSE <<>>
    IN  IF Lower(body) \in {<<"i", "n", "f">>, <<"i", "n", "f", "i", "n", "i", "t", "y">>}
        THEN [ok |-> TRUE, x |-> Float("inf", neg, 0)]
        ELSE IF Lower(body) = <<"n", "a", "n">>
        THEN [ok |-> TRUE, x |-> Float("nan", neg, 0)]
        ELSE IF IsNumeral(body)
        THEN [ok |-> TRUE, x |-> Float("fin", neg, 4 * ToInt(ip) + FracQuarters(fp))]
        ELSE [ok |-> FALSE, x |-> Float("nan", FALSE, 0)]

\* repr(x) for a float x
FloatRepr(x) ==
    IF x.k = "nan" THEN <<"n", "a", "n">>
    ELSE (IF x.neg THEN <<"-">> ELSE <<>>) \o
         (IF x.k = "inf" THEN <<"i", "n", "f">>
          ELSE NatStr(x.q \div 4) \o <<".">> \o
               (CASE x.q % 4 = 0 -> <<"0">>
                  [] x.q % 4 = 1 -> <<"2", "5">>
                  [] x.q % 4 = 2 -> <<"5">>
                  [] x.q % 4 = 3 -> <<"7", "5">>))

\* f"{x:.1f}": one decimal, ties to the even digit
Format1f(x) ==
    IF x.k = "nan" THEN <<"n", "a", "n">>
    ELSE (IF x.neg THEN <<"-">> ELSE <<>>) \o
         (IF x.k = "inf" THEN <<"i", "n", "f">>
          ELSE LET lo == (5 * x.q) \div 2
                   tenths == IF (5 * x.q) % 2 = 0 \/ lo % 2 = 0 THEN lo ELSE lo + 1
               IN  NatStr(tenths \div 10) \o <<".">> \o NatStr(tenths % 10))

-----------------------------------------------------------------------------
(* format_value.  It returns [raised, value]: raised is None and value the  *)
(* string returned, or raised names the exception that left the function.   *)

\* repr(value), for text without quotes and backslashes
RECURSIVE Repr(_)
Repr(value) ==
    CASE value.t = "none" -> <<"N", "o", "n", "e">>
      [] value.t = "str" -> <<"'">> \o value.v \o <<"'">>
      [] value.t = "int" -> IntStr(value.v)
      [] value.t = "float" -> FloatRepr(value.v)
      [] value.t = "list" ->
            <<"[">> \o Join(<<",", " ">>, [i \in DOMAIN value.v |-> Repr(value.v[i])]) \o <<"]">>
      [] value.t = "dict" ->
            <<"{">> \o Join(<<",", " ">>,
                            [i \in DOMAIN value.v |->
                                Repr(PyStr(value.v[i][1])) \o <<":", " ">> \o Repr(value.v[i][2])])
                \o <<"}">>

\* str(value)
Str(value) == IF value.t = "str" THEN value.v ELSE Repr(value)

\* bool(value)
Truthy(value) ==
    CASE value.t = "none" -> FALSE
      [] value.t = "int" -> value.v # 0
      [] value.t = "float" -> ~(value.v.k = "fin" /\ value.v.q = 0)
      [] OTHER -> value.v # <<>>

\* float(value): [ok |-> FALSE] stands for ValueError or TypeError
ToFloat(value) ==
    CASE value.t = "float" -> [ok |-> TRUE, x |-> value.v]
      [] value.t = "int" ->
            [ok |-> TRUE,
             x |-> Float("fin", value.v < 0, 4 * (IF value.v < 0 THEN -value.v ELSE value.v))]
      [] value.t = "str" -> ParseFloat(value.v)
      [] OTHER -> [ok |-> FALSE, x |-> Float("nan", FALSE, 0)]

\* x * 100
Times100(x) == IF x.k = "fin" THEN Float("fin", x.neg, 100 * x.q) ELSE x

\* int(x) for a float x: the exception it raises, or the int
ToIntOfFloat(x) ==
    CASE x.k = "nan" -> [raised |-> Some("ValueError"), n |-> 0]
      [] x.k = "inf" -> [raised |-> Some("OverflowError"), n |-> 0]
      [] OTHER -> [raised |-> None, n |-> IF x.neg THEN -(x.q \div 4) ELSE x.q \div 4]

Dash == <<"-">>

Returned(str) == [raised |-> None, value |-> str]

Raised(exc) == [raised |-> Some(exc), value |-> <<>>]

\* the try blocks of percent and points: ValueError and TypeError give "-",
\* any other exception leaves the function
IntFormat(f, suffix) ==
    IF ~f.ok THEN Returned(Dash)
    ELSE LET i == ToIntOfFloat(f.x)
         IN  IF i.raised = None THEN Returned(IntStr(i.n) \o suffix)
             ELSE IF i.raised[1] \in {"ValueError", "TypeError"} THEN Returned(Dash)
             ELSE Raised(i.raised[1])

\* lines 75-79: the max width truncation
Truncate(str, max_width) ==
    IF max_width # None /\ max_width[1] # 0 /\ Len(str) > max_width[1]
    THEN PySliceTo(str, max_width[1] - 3) \o <<".", ".", ".">>
    ELSE str

\* lines 47-51: a list becomes the text of its elements joined by ', '
Joined(value) ==
    IF value.t = "list"
    THEN PyStr(Join(<<",", " ">>, [i \in DOMAIN value.v |-> Str(value.v[i])]))
    ELSE value

\* lines 53-73: the text before truncation
Formatted(value, format_type) ==
    CASE format_type = Some("date") ->
            Returned(IF Truthy(value) THEN PySliceTo(Str(value), 10) ELSE Dash)
      [] format_type = Some("percent") ->
            LET f == ToFloat(value)
            IN  IntFormat([ok |-> f.ok, x |-> Times100(f.x)], <<"%">>)
      [] format_type = Some("points") -> IntFormat(ToFloat(value), <<>>)
      [] format_type = Some("hours") ->
            LET f == ToFloat(value)
            IN  IF f.ok THEN Returned(Format1f(f.x) \o <<"h">>) ELSE Returned(Dash)
      [] OTHER -> Returned(Str(value))

\* format_value that formats an empty list like any other list
format_value_NoEmptyCheck(value, format_type, max_width) ==
    IF value.t = "none" THEN Returned(Dash)
    ELSE LET f == Formatted(Joined(value), format_type)
         IN  IF f.raised # None THEN f
             ELSE Returned(Truncate(f.value, max_width))

format_value(value, format_type, max_width) ==
    IF value.t = "none" THEN Returned(Dash)
    ELSE IF value.t = "list" /\ value.v = <<>> THEN Returned(Dash)
    ELSE LET f == Formatted(Joined(value), format_type)
         IN  IF f.raised # None THEN f
             ELSE Returned(Truncate(f.value, max_width))

-----------------------------------------------------------------------------
(* build_table_from_config.  The renderer only reads its configuration, so  *)
(* config.columns holds the ColumnConfig values themselves; a field and a   *)
(* label are Python strs.  The rich Table is its title, the columns added   *)
(* and the rows added, in order.                                            *)

\* ColumnConfig(field=f)
BasicColumn(f) == ColumnConfig(f, None, None, None, None, "left")

\* col.label or col.field
Header(col) == IF col.label # None /\ col.label[1] # <<>> THEN col.label[1] ELSE col.field

\* lines 99-102: the columns of the table
TableColumns(cfg) ==
    IF cfg.columns # <<>> THEN cfg.columns
    ELSE [i \in DOMAIN cfg.select |-> BasicColumn(cfg.select[i])]

\* lines 117-118: one cell, as format_value returns it
Cell(item, col) == format_value(get_nested_field(item, col.field), col.format, col.max_width)

\* lines 97 and 104-122: [raised, table], the Table built for the columns, or
\* the exception of the first cell (rows in order, cells in column order)
\* whose formatting raised
BuildTable(title, items, columns) ==
    LET cells == [r \in DOMAIN items |-> [c \in DOMAIN columns |-> Cell(items[r], columns[c])]]
        failed == {rc \in (DOMAIN items) \X (DOMAIN columns) : cells[rc[1]][rc[2]].raised # None}
    IN  IF failed # {}
        THEN LET rc == CHOOSE x \in failed :
                          \A y \in failed : x[1] < y[1] \/ (x[1] = y[1] /\ x[2] <= y[2])
             IN  [raised |-> cells[rc[1]][rc[2]].raised, table |-> <<>>]
        ELSE [raised |-> None,
              table |-> <<[title |-> title,
                           columns |-> [c \in DOMAIN columns |->
                                           [header |-> Header(columns[c]),
                                            style |-> columns[c].style,
                                            no_wrap |-> columns[c].max_width = None,
                                            justify |-> columns[c].justify]],
                           rows |-> [r \in DOMAIN items |->
                                        [c \in DOMAIN columns |-> cells[r][c].value]]]>>]

build_table_from_config(title, items, cfg) == BuildTable(title, items, TableColumns(cfg))

-----------------------------------------------------------------------------
(* The three display functions applied to drawn arguments (they are pure).  *)

MaxKeys == 2        \* most keys of a record handed to get_nested_field
MaxWidth == 6       \* largest max_width handed to format_value
MaxItems == 2       \* most records handed to build_table_from_config

kS == <<"S">>
kN == <<"N">>
kE == <<"E">>
kSN == <<"S", ".", "N">>

\* a dict from its items, in insertion order
Dict1(k, v) == PyDict(<<<<k, v>>>>)

FieldValues ==
    {PyNone, PyStr(<<"x">>), PyStr(<<"y">>), PyList(<<PyStr(<<"x">>)>>), PyDict(<<>>),
     Dict1(kN, PyStr(<<"y">>)), Dict1(kN, PyNone),
     Dict1(kN, Dict1(<<"C">>, PyStr(<<"z">>)))}

\* the records with at most n of the keys S and S.N, in either order
Records(n) ==
    {d \in UNION {[1..k -> {kS, kSN} \X FieldValues] : k \in 0..n} :
        \A i, j \in DOMAIN d : i # j => d[i][1] # d[j][1]}

Paths ==
    {kS, kN, kSN, <<"S", ".", "M">>, <<"S", ".", "N", ".", "C">>, <<"S", ".", ".", "N">>,
     <<"X", ".", "N">>, <<"S", ".", "N", ".">>}

NestedCalls ==
    {[f |-> "get_nested_field", item |-> item, field |-> field] :
        item \in Records(MaxKeys), field \in Paths}

Texts ==
    {<<>>,
     <<"x">>,
     <<"a", "b", "c", "d">>,
     <<"2", "0", "2", "5", "-", "0", "1", "-", "1", "5", "T", "1", "0">>,
     <<"0", ".", "5">>,
     <<"3", ".", "7", "5">>,
     <<"-", "0", ".", "2", "5">>,
     <<" ", "4", " ">>,
     <<"i", "n", "f">>,
     <<"-", "I", "n", "f", "i", "n", "i", "t", "y">>,
     <<"N", "a", "N">>,
     <<"b", "a", "d">>,
     <<"1", ".", "2", ".", "3">>,
     <<".">>,
     <<"+">>,
     <<"7", ".">>}

Floats ==
    {Float("fin", FALSE, 0), Float("fin", TRUE, 0), Float("fin", FALSE, 3),
     Float("fin", FALSE, 10), Float("fin", TRUE, 5), Float("inf", FALSE, 0),
     Float("inf", TRUE, 0), Float("nan", FALSE, 0)}

Values ==
    {PyNone} \cup {PyStr(t) : t \in Texts} \cup {PyInt(n) : n \in {0, 5, -2, 1234567}}
    \cup {PyFloat(x) : x \in Floats}
    \cup {PyList(<<>>), PyList(<<PyStr(<<"a">>)>>), PyList(<<PyStr(<<"a">>), PyStr(<<"b">>)>>),
          PyList(<<PyStr(<<"0", ".", "5">>)>>), PyList(<<PyStr(<<>>)>>),
          PyList(<<PyNone, PyInt(1), PyFloat(Float("fin", FALSE, 2)), PyList(<<PyInt(1)>>)>>)}
    \cup {PyDict(<<>>), Dict1(kN, PyStr(<<"x">>))}

FormatTypes ==
    {None, Some("date"), Some("percent"), Some("points"), Some("hours"), Some("bogus")}

Widths == {None} \cup {Some(w) : w \in (-1)..MaxWidth}

FormatCalls ==
    {[f |-> "format_value", value |-> value, format_type |-> format_type,
      max_width |-> max_width] :
        value \in Values, format_type \in FormatTypes, max_width \in Widths}

\* records as the API returns them
Rows ==
    {<<<<kN, PyStr(<<"a", "b">>)>>, <<kE, PyFloat(Float("fin", FALSE, 3))>>>>,
     <<<<kN, PyStr(<<"a", "b", "c", "d", "e", "f", "g">>)>>, <<kE, PyStr(<<"i", "n", "f">>)>>>>,
     <<<<kSN, PyStr(<<"d">>)>>, <<kN, PyNone>>>>,
     <<>>}

ColN == ColumnConfig(kN, Some(<<"I", "D">>), Some("cyan"), None, None, "left")
ColE == ColumnConfig(kE, Some(<<"P", "t", "s">>), None, None, Some("points"), "right")
ColNarrow == ColumnConfig(kN, Some(<<>>), None, Some(4), None, "left")
ColPlain == ColumnConfig(kSN, None, None, Some(2), None, "center")
ColPct == ColumnConfig(kE, None, None, None, Some("percent"), "right")

Configs ==
    {AssetQueryConfig(<<kN, kE>>, <<>>, <<>>, <<ColN, ColE>>),
     AssetQueryConfig(<<kN, kSN>>, <<>>, <<kN>>, <<>>),
     AssetQueryConfig(<<>>, <<>>, <<>>, <<>>),
     AssetQueryConfig(<<kN>>, <<>>, <<>>, <<ColNarrow, ColPlain>>),
     AssetQueryConfig(<<>>, <<>>, <<>>, <<ColPct>>),
     AssetQueryConfig(<<kE, kN, kE>>, <<>>, <<>>, <<ColPlain>>)}

TableCalls ==
    {[f |-> "build_table_from_config", title |-> <<"T">>, items |-> items, config |-> cfg] :
        items \in Lists(Rows, MaxItems), cfg \in Configs}

InitRender ==
    /\ BookmarksIdle
    /\ DetectIdle
    /\ DefaultsIdle
    /\ CacheIdle
    /\ RestIdle
    /\ fn = "init"
    /\ args \in NestedCalls \cup FormatCalls \cup TableCalls
    /\ ret = <<>>

GetNestedField ==
    /\ fn = "init"
    /\ args.f = "get_nested_field"
    /\ fn' = args.f
    /\ ret' = get_nested_field(args.item, args.field)
    /\ UNCHANGED <<args, outsideRender>>

FormatValue ==
    /\ fn = "init"
    /\ args.f = "format_value"
    /\ fn' = args.f
    /\ ret' = format_value(args.value, args.format_type, args.max_width)
    /\ UNCHANGED <<args, outsideRender>>

BuildTableFromConfig ==
    /\ fn = "init"
    /\ args.f = "build_table_from_config"
    /\ fn' = args.f
    /\ ret' = build_table_from_config(args.title, args.items, args.config)
    /\ UNCHANGED <<args, outsideRender>>

NextRender == GetNestedField \/ FormatValue \/ BuildTableFromConfig

SpecRender == InitRender /\ [][NextRender]_vars

-----------------------------------------------------------------------------
(* The get_default_*_config functions of v1cli.config.defaults.  Lists and  *)
(* ColumnConfig objects live in the store (object id = position), so that   *)
(* two configurations can share an object or not.  The module-level objects *)
(* come first: the ColumnConfig objects of DefaultsHeap, then for each kind *)
(* its DEFAULT_*_SELECT, DEFAULT_*_FILTERS and DEFAULT_*_COLUMNS lists.      *)

ListObj(l) == [t |-> "list", v |-> l]

ColumnObj(c) == [t |-> "column", v |-> c]

ModuleStore ==
    [i \in DOMAIN DefaultsHeap |-> ColumnObj(DefaultsHeap[i])]
    \o <<ListObj(DEFAULT_DELIVERY_GROUP_SELECT), ListObj(DEFAULT_DELIVERY_GROUP_FILTERS),
          ListObj(DeliveryGroupColumnIds),
          ListObj(DEFAULT_FEATURE_SELECT), ListObj(DEFAULT_FEATURE_FILTERS),
          ListObj(FeatureColumnIds),
          ListObj(DEFAULT_STORY_SELECT), ListObj(DEFAULT_STORY_FILTERS),
          ListObj(StoryColumnIds),
          ListObj(DEFAULT_TASK_SELECT), ListObj(DEFAULT_TASK_FILTERS),
          ListObj(TaskColumnIds)>>

\* object ids of the module-level lists of kind k
SelectId(k) == Len(DefaultsHeap) + 3 * (k - 1) + 1
FiltersId(k) == Len(DefaultsHeap) + 3 * (k - 1) + 2
ColumnsId(k) == Len(DefaultsHeap) + 3 * (k - 1) + 3

\* get_default_config whose columns are the module-level ColumnConfig objects
get_default_config_NoModelCopy(k, st) ==
    LET n == Len(st)
    IN  [config |-> AssetQueryConfig(n + 1, n + 2, n + 3, n + 4),
         store |-> st \o <<ListObj(st[SelectId(k)].v), ListObj(st[FiltersId(k)].v),
                           ListObj(KindArgs(k).sort), ListObj(st[ColumnsId(k)].v)>>]

\* get_default_delivery_group_config (k = 1), get_default_feature_config (2),
\* get_default_story_config (3), get_default_task_config (4) with the store
\* st: the configuration returned (the ids of its four lists) and the store
\* after the call
get_default_config(k, st) ==
    LET n == Len(st)
        defaults == st[ColumnsId(k)].v
        copies == [i \in DOMAIN defaults |-> ColumnObj(st[defaults[i]].v)]
    IN  [config |-> AssetQueryConfig(n + 1, n + 2, n + 3, n + 4 + Len(copies)),
         store |-> st \o <<ListObj(st[SelectId(k)].v), ListObj(st[FiltersId(k)].v),
                           ListObj(KindArgs(k).sort)>>
                      \o copies
                      \o <<ListObj([i \in DOMAIN copies |-> n + 3 + i])>>]

\* get_default_project_query_config: the four configurations, built in the
\* order delivery_groups, features, stories, tasks
get_default_project_query_config(st) ==
    LET c1 == get_default_config(1, st)
        c2 == get_default_config(2, c1.store)
        c3 == get_default_config(3, c2.store)
        c4 == get_default_config(4, c3.store)
    IN  [config |-> [ProjectQueryConfig(None) EXCEPT
                        !.kinds = [k \in Kinds |->
                                      CASE k = 1 -> c1.config [] k = 2 -> c2.config
                                        [] k = 3 -> c3.config [] k = 4 -> c4.config]],
         store |-> c4.store]

-----------------------------------------------------------------------------
(* Callers asking for default configurations and changing what they got: a  *)
(* list of a returned configuration (append, delete) or an attribute of one *)
(* of its columns.                                                          *)

MaxReturned == 2    \* most get_default_* calls made

InitDefaults ==
    /\ BookmarksIdle
    /\ DetectIdle
    /\ CallsIdle
    /\ CacheIdle
    /\ RestIdle
    /\ store = ModuleStore
    /\ returned = <<>>
    /\ edited = {}

\* one of the four get_default_*_config functions is called
GetDefaultConfig(k) ==
    LET r == get_default_config(k, store)
    IN  /\ Len(returned) < MaxReturned
        /\ store' = r.store
        /\ returned' = Append(returned, <<[kind |-> k, config |-> r.config]>>)
        /\ UNCHANGED <<edited, bmVars, detVars, renderVars, cacheVars, restVars>>

GetDefaultProjectQueryConfig ==
    LET r == get_default_project_query_config(store)
    IN  /\ Len(returned) < MaxReturned
        /\ store' = r.store
        /\ returned' = Append(returned, [k \in Kinds |-> [kind |-> k, config |-> r.config.kinds[k]]])
        /\ UNCHANGED <<edited, bmVars, detVars, renderVars, cacheVars, restVars>>

EditTargets == {"select", "filters", "sort", "columns", "column"}

\* the caller changes configuration j of the e-th value returned:
\* cfg.select.append("CustomField") (likewise filters, sort),
\* del cfg.columns[0], or cfg.columns[0].label = "Changed"
ModifyReturned(e, j, target) ==
    LET cfg == returned[e][j].config
        columns == store[cfg.columns].v
    IN  /\ \A x \in edited : x[1] # e
        /\ target \in {"columns", "column"} => columns # <<>>
        /\ store' =
              CASE target = "select" ->
                      [store EXCEPT ![cfg.select].v = Append(@, F("CustomField"))]
                [] target = "filters" ->
                      [store EXCEPT ![cfg.filters].v = Append(@, F("CustomField"))]
                [] target = "sort" ->
                      [store EXCEPT ![cfg.sort].v = Append(@, F("CustomField"))]
                [] target = "columns" -> [store EXCEPT ![cfg.columns].v = Tail(@)]
                [] target = "column" ->
                      [store EXCEPT ![columns[1]].v.label = Some("Changed")]
        /\ edited' = edited \cup {<<e, j>>}
        /\ UNCHANGED <<returned, bmVars, detVars, renderVars, cacheVars, restVars>>

NextDefaults ==
    \/ \E k \in Kinds : GetDefaultConfig(k)
    \/ GetDefaultProjectQueryConfig
    \/ \E e \in DOMAIN returned : \E j \in DOMAIN returned[e], target \in EditTargets :
            ModifyReturned(e, j, target)

SpecDefaults == InitDefaults /\ [][NextDefaults]_vars

-----------------------------------------------------------------------------
(* The row-reference cache of LocalStorage: features_cache.json and         *)
(* stories_cache.json.  A file's content is the JSON document in it, an     *)
(* array of arrays of strings; a cached row is a Python tuple of strs.      *)

PyTuple(v) == [t |-> "tuple", v |-> v]

\* json.dumps of a list of tuples of str: a tuple is written as an array
JsonDumps(rows) == [i \in DOMAIN rows |-> rows[i].v]

\* json.loads of such a document: an array is read as a list
JsonLoads(text) == [i \in DOMAIN text |-> PyList(text[i])]

\* tuple(l) for a list l
TupleOf(l) == PyTuple(l.v)

\* cache_features(features): the content written to features_cache.json
cache_features(features) == Some(JsonDumps(features))

\* get_cached_feature that takes index as a position counted from 0
get_cached_feature_ZeroBased(file, index) ==
    IF file = None THEN None
    ELSE LET features == JsonLoads(file[1])
         IN  IF 0 <= index /\ index < Len(features)
             THEN Some(TupleOf(features[index + 1]))
             ELSE None

\* get_cached_feature(index) with features_cache.json as file
get_cached_feature(file, index) ==
    IF file = None THEN None
    ELSE LET features == JsonLoads(file[1])
         IN  IF 1 <= index /\ index <= Len(features)
             THEN Some(TupleOf(features[index]))
             ELSE None

\* cache_stories(stories): the content written to stories_cache.json
cache_stories(stories) == Some(JsonDumps(stories))

\* get_cached_story(index) with stories_cache.json as file
get_cached_story(file, index) ==
    IF file = None THEN None
    ELSE LET stories == JsonLoads(file[1])
         IN  IF 1 <= index /\ index <= Len(stories)
             THEN Some(TupleOf(stories[index]))
             ELSE None

-----------------------------------------------------------------------------
(* The cache under calls of LocalStorage and runs of the listing commands   *)
(* 'v1 features', 'v1 stories' and 'v1 mine'.  What the service answers is  *)
(* an input of a run: the rows of the listing (number, oid) in the order    *)
(* displayed, or no listing at all (the project or the parent was not       *)
(* found, or the request failed).                                           *)

MaxRows == 2        \* most rows of a listing

RowPool ==
    {PyTuple(<<<<"N", "1">>, <<"O", ":", "1">>>>), PyTuple(<<<<"N", "2">>, <<"O", ":", "2">>>>)}

RowLists == Lists(RowPool, MaxRows)

Indexes == (-1)..(MaxRows + 1)

Formats == {"table", "json"}

\* what the service lets a run list: nothing (aborted), or rows
Outcomes ==
    {[aborted |-> TRUE, rows |-> <<>>]} \cup {[aborted |-> FALSE, rows |-> l] : l \in RowLists}

ParentNumbers == {None, Some(<<"1">>), Some(<<"2">>), Some(<<"E", "-", "1">>)}

InitCache ==
    /\ BookmarksIdle
    /\ DetectIdle
    /\ DefaultsIdle
    /\ CacheIdle
    /\ RestIdle
    /\ fn = "init"
    /\ args = <<>>
    /\ ret = <<>>

\* the bookkeeping of a call: its name, arguments, result and the files as
\* they were when it started
Called(name, a, r) ==
    /\ fn' = name
    /\ args' = a
    /\ ret' = r
    /\ old_features_cache' = features_cache
    /\ old_stories_cache' = stories_cache
    /\ UNCHANGED <<bmVars, detVars, defVars, restVars>>

CacheFeatures(features) ==
    /\ features_cache' = cache_features(features)
    /\ UNCHANGED stories_cache
    /\ Called("cache_features", [features |-> features], None)

GetCachedFeature(index) ==
    /\ UNCHANGED <<features_cache, stories_cache>>
    /\ Called("get_cached_feature", [index |-> index], get_cached_feature(features_cache, index))

CacheStories(stories) ==
    /\ stories_cache' = cache_stories(stories)
    /\ UNCHANGED features_cache
    /\ Called("cache_stories", [stories |-> stories], None)

GetCachedStory(index) ==
    /\ UNCHANGED <<features_cache, stories_cache>>
    /\ Called("get_cached_story", [index |-> index], get_cached_story(stories_cache, index))

\* what a run of a listing command leaves: the rows it listed (None when it
\* ended without a listing)
Listed(rows) == [listed |-> Some(rows)]

NoListing == [listed |-> None]

\* 'v1 features': no listing when the parent is not resolved or a request
\* fails; an empty listing returns before the cache is written; otherwise the
\* rows are cached, then printed as JSON or as a table
Features(output_format, outcome) ==
    /\ features_cache' =
          IF outcome.aborted \/ outcome.rows = <<>> THEN features_cache
          ELSE cache_features(outcome.rows)
    /\ UNCHANGED stories_cache
    /\ Called("features", [output_format |-> output_format, outcome |-> outcome],
              IF outcome.aborted THEN NoListing ELSE Listed(outcome.rows))

\* _print_stories_table(stories): caches the rows, then prints the table
print_stories_table(stories) == cache_stories(stories)

\* the end of 'v1 stories' and of 'v1 mine' once the story list is there:
\* the stories cache after it
StoriesOutput(story_list, output_format, file) ==
    IF story_list = <<>> THEN file
    ELSE IF output_format = "json" THEN file
    ELSE print_stories_table(story_list)

\* 'v1 stories [parent_number]': an all-digit parent_number is a row of the
\* features cache, and the run ends with an error when the cache has no such
\* row; any other lookup is answered by the service
Stories(parent_number, output_format, outcome) ==
    LET by_row == parent_number # None /\ parent_number[1] # <<>> /\ IsDigit(parent_number[1])
        cached == IF by_row THEN get_cached_feature(features_cache, ToInt(parent_number[1]))
                  ELSE None
        aborted == (by_row /\ cached = None) \/ outcome.aborted
    IN  /\ stories_cache' =
              IF aborted THEN stories_cache
              ELSE StoriesOutput(outcome.rows, output_format, stories_cache)
        /\ UNCHANGED features_cache
        /\ Called("stories",
                  [parent_number |-> parent_number, output_format |-> output_format,
                   outcome |-> outcome],
                  IF aborted THEN NoListing ELSE Listed(outcome.rows))

\* 'v1 mine'
Mine(output_format, outcome) ==
    /\ stories_cache' =
          IF outcome.aborted THEN stories_cache
          ELSE StoriesOutput(outcome.rows, output_format, stories_cache)
    /\ UNCHANGED features_cache
    /\ Called("mine", [output_format |-> output_format, outcome |-> outcome],
              IF outcome.aborted THEN NoListing ELSE Listed(outcome.rows))

NextCache ==
    \/ \E features \in RowLists : CacheFeatures(features)
    \/ \E index \in Indexes : GetCachedFeature(index)
    \/ \E stories \in RowLists : CacheStories(stories)
    \/ \E index \in Indexes : GetCachedStory(index)
    \/ \E output_format \in Formats, outcome \in Outcomes : Features(output_format, outcome)
    \/ \E parent_number \in ParentNumbers, output_format \in Formats, outcome \in Outcomes :
            Stories(parent_number, output_format, outcome)
    \/ \E output_format \in Formats, outcome \in Outcomes : Mine(output_format, outcome)

SpecCache == InitCache /\ [][NextCache]_vars

-----------------------------------------------------------------------------
(* The settings file under concurrent CLI processes.  get_settings reads    *)
(* config.toml (Settings() when there is no file), the process changes the  *)
(* object, and save_settings opens the file for writing, which empties it,  *)
(* and writes the TOML text from the start of the file.  The text holds     *)
(* default_project and the bookmarks; the other settings do not change.     *)

SettingsOf(bms, dflt) == [bookmarks |-> bms, default_project |-> dflt]

NewLine == <<"\n">>

Quoted(str) == <<"\"">> \o str \o <<"\"">>

KeyDefault == <<"d", "e", "f", "a", "u", "l", "t", "_", "p", "r", "o", "j", "e", "c", "t">>

KeyName == <<"n", "a", "m", "e">>

KeyOid == <<"o", "i", "d">>

TableHeader == <<"[", "[", "b", "o", "o", "k", "m", "a", "r", "k", "s", "]", "]">>

\* one "key = "value"" line
KeyValue(key, str) == key \o <<" ", "=", " ">> \o Quoted(str) \o NewLine

RECURSIVE DumpBookmarks(_)
DumpBookmarks(bms) ==
    IF bms = <<>> THEN <<>>
    ELSE TableHeader \o NewLine \o KeyValue(KeyName, Head(bms).name)
         \o KeyValue(KeyOid, Head(bms).oid) \o DumpBookmarks(Tail(bms))

\* settings.model_dump(exclude_none=True) written by tomli_w.dump
Dump(settings) ==
    (IF settings.default_project = None THEN <<>>
     ELSE KeyValue(KeyDefault, settings.default_project[1]))
    \o DumpBookmarks(settings.bookmarks)

\* the text between the quotes of a "key = "value"" line
ValueOf(line, key) == SubSeq(line, Len(key) + 5, Len(line) - 1)

IsKeyValue(line, key) ==
    /\ Len(line) >= Len(key) + 5
    /\ SubSeq(line, 1, Len(key) + 4) = key \o <<" ", "=", " ", "\"">>
    /\ line[Len(line)] = "\""

\* tomllib.load and Settings.model_validate, line by line: acc is the
\* Settings read so far, ok is FALSE once a line is not understood
RECURSIVE ParseLines(_, _)
ParseLines(lines, acc) ==
    IF lines = <<>> \/ ~acc.ok THEN acc
    ELSE LET line == Head(lines)
             bms == acc.settings.bookmarks
             n == Len(bms)
         IN  ParseLines(Tail(lines),
                CASE line = <<>> -> acc
                  [] line = TableHeader ->
                        [acc EXCEPT !.settings.bookmarks = Append(bms, ProjectBookmark(<<>>, <<>>))]
                  [] IsKeyValue(line, KeyDefault) /\ n = 0 ->
                        [acc EXCEPT !.settings.default_project = Some(ValueOf(line, KeyDefault))]
                  [] IsKeyValue(line, KeyName) /\ n > 0 ->
                        [acc EXCEPT !.settings.bookmarks[n].name = ValueOf(line, KeyName)]
                  [] IsKeyValue(line, KeyOid) /\ n > 0 ->
                        [acc EXCEPT !.settings.bookmarks[n].oid = ValueOf(line, KeyOid)]
                  [] OTHER -> [acc EXCEPT !.ok = FALSE])

\* get_settings() in a fresh process: Settings() without a file, else the
\* parsed file; ok is FALSE when tomllib raises
Load(file) ==
    IF file = None THEN [ok |-> TRUE, settings |-> SettingsOf(<<>>, None)]
    ELSE ParseLines(Split(file[1], "\n"), [ok |-> TRUE, settings |-> SettingsOf(<<>>, None)])

\* open(settings_path, "wb"): the file exists and is empty
Truncated == Some(<<>>)

\* the buffered text written at offset 0 of the file as it is then
WriteAtStart(file, text) ==
    Some(text \o SubSeq(file[1], Len(text) + 1, Len(file[1])))

\* Two CLI processes, each running one command that adds a bookmark
\* (LocalStorage.add_project_bookmark): get_settings, add_bookmark, and
\* save_settings as its two file operations.
Procs == {1, 2}

LongName == <<"L", "o", "n", "g", "e", "r">>

\* the bookmark each process adds
SaveAdds(p) ==
    IF p = 1 THEN {ProjectBookmark(LongName, Oid(Epic, n100)), ProjectBookmark(Bar, Oid(Epic, n9))}
    ELSE {ProjectBookmark(<<"x">>, Oid(Epic, n1)), ProjectBookmark(Foo, Oid(Epic, n3))}

\* the file before the processes start: none, or one written by save_settings
InitialFiles ==
    {None,
     Some(Dump(SettingsOf(<<ProjectBookmark(Foo, Oid(Epic, n3))>>, Some(Oid(Epic, n3))))),
     Some(Dump(SettingsOf(<<ProjectBookmark(Bar, Oid(Epic, n1))>>, None)))}

InitSave ==
    /\ BookmarksIdle
    /\ DetectIdle
    /\ DefaultsIdle
    /\ CacheIdle
    /\ TimeIdle
    /\ WorkflowIdle
    /\ fn = "init"
    /\ args = <<>>
    /\ ret = <<>>
    /\ settings_file \in InitialFiles
    /\ \E a1 \in SaveAdds(1), a2 \in SaveAdds(2) :
          procs = [p \in Procs |->
                     [pc |-> "start", settings |-> SettingsOf(<<>>, None),
                      add |-> IF p = 1 THEN a1 ELSE a2, text |-> <<>>]]

\* the step of process p that ran last
Stepped(name, p) ==
    /\ fn' = name
    /\ args' = [proc |-> p]
    /\ ret' = <<>>
    /\ UNCHANGED <<bmVars, detVars, defVars, cacheVars, timeVars, wfVars>>

\* settings = self.settings (get_settings in a process that has not loaded yet)
GetSettings(p) ==
    /\ procs[p].pc = "start"
    /\ LET r == Load(settings_file)
       IN  procs' = [procs EXCEPT ![p].pc = IF r.ok THEN "loaded" ELSE "failed",
                                  ![p].settings = r.settings]
    /\ UNCHANGED settings_file
    /\ Stepped("get_settings", p)

\* settings.add_bookmark(name, oid)
ChangeSettings(p) ==
    /\ procs[p].pc = "loaded"
    /\ procs' = [procs EXCEPT
                    ![p].pc = "changed",
                    ![p].settings.bookmarks =
                        add_bookmark(@, procs[p].add.name, procs[p].add.oid)]
    /\ UNCHANGED settings_file
    /\ Stepped("add_bookmark", p)

\* save_settings up to open(settings_path, "wb"): the text to write is
\* settled by the object as it is now, and the file is emptied
OpenForWriting(p) ==
    /\ procs[p].pc = "changed"
    /\ procs' = [procs EXCEPT ![p].pc = "opened", ![p].text = Dump(procs[p].settings)]
    /\ settings_file' = Truncated
    /\ Stepped("open", p)

\* the rest of save_settings: tomli_w.dump and the close that flushes the
\* text to the file
WriteAndClose(p) ==
    /\ procs[p].pc = "opened"
    /\ procs' = [procs EXCEPT ![p].pc = "done"]
    /\ settings_file' = WriteAtStart(settings_file, procs[p].text)
    /\ Stepped("write", p)

NextSave ==
    \E p \in Procs :
        GetSettings(p) \/ ChangeSettings(p) \/ OpenForWriting(p) \/ WriteAndClose(p)

SpecSave == InitSave /\ [][NextSave]_vars

-----------------------------------------------------------------------------
(* The local time entries of LocalStorage (time_entries.json).  The file    *)
(* holds {"entries": [...], "version": 1}; an entry is a TimeEntry with the *)
(* fields the storage methods read and write.                               *)

MaxEntries == 2     \* most entries in time_entries.json

\* TimeEntry(id=..., hours=..., story_oid=..., ...) as add_time_entry builds
\* it: not synced, no synced_at, no actual_oid
TimeEntry(id, hours, story_oid, story_number, created_at) ==
    [id |-> id, hours |-> hours, story_oid |-> story_oid, story_number |-> story_number,
     created_at |-> created_at, synced |-> FALSE, synced_at |-> None, actual_oid |-> None]

\* load_time_entries(): [] without a file, else data.get("entries", [])
load_time_entries(file) == IF file = None THEN <<>> ELSE file[1].entries

\* save_time_entries(entries): the file after it
save_time_entries(entries) == Some([entries |-> entries, version |-> 1])

\* position of the first entry with this id, 0 when the loop finds none
EntryIndex(entries, entry_id) ==
    IF \E i \in DOMAIN entries : entries[i].id = entry_id
    THEN CHOOSE i \in DOMAIN entries :
            entries[i].id = entry_id /\ \A j \in 1..(i - 1) : entries[j].id # entry_id
    ELSE 0

\* what a storage method leaves: the file and the value returned
Outcome(file, value) == [file |-> file, value |-> value]

add_time_entry(file, id, hours, story_oid, story_number, now) ==
    LET entries == load_time_entries(file)
        entry == TimeEntry(id, hours, story_oid, story_number, now)
    IN  Outcome(save_time_entries(Append(entries, entry)), entry)

\* [e for e in self.load_time_entries() if not e.synced]
get_unsynced_entries(file) == SelectSeq(load_time_entries(file), LAMBDA e : ~e.synced)

mark_entry_synced(file, entry_id, actual_oid, now) ==
    LET entries == load_time_entries(file)
        i == EntryIndex(entries, entry_id)
    IN  IF i = 0 THEN Outcome(file, FALSE)
        ELSE Outcome(save_time_entries([entries EXCEPT ![i].synced = TRUE,
                                                        ![i].synced_at = Some(now),
                                                        ![i].actual_oid = Some(actual_oid)]),
                     TRUE)

\* move_entry that moves synced entries as well
move_entry_NoSyncedCheck(file, entry_id, new_story_oid, new_story_number) ==
    LET entries == load_time_entries(file)
        i == EntryIndex(entries, entry_id)
    IN  IF i = 0 THEN Outcome(file, FALSE)
        ELSE Outcome(save_time_entries([entries EXCEPT ![i].story_oid = new_story_oid,
                                                        ![i].story_number = new_story_number]),
                     TRUE)

move_entry(file, entry_id, new_story_oid, new_story_number) ==
    LET entries == load_time_entries(file)
        i == EntryIndex(entries, entry_id)
    IN  IF i = 0 THEN Outcome(file, FALSE)
        ELSE IF entries[i].synced THEN Outcome(file, FALSE)
        ELSE Outcome(save_time_entries([entries EXCEPT ![i].story_oid = new_story_oid,
                                                        ![i].story_number = new_story_number]),
                     TRUE)

\* delete_entry that deletes synced entries as well
delete_entry_NoSyncedCheck(file, entry_id) ==
    LET entries == load_time_entries(file)
        i == EntryIndex(entries, entry_id)
    IN  IF i = 0 THEN Outcome(file, FALSE)
        ELSE Outcome(save_time_entries(SubSeq(entries, 1, i - 1)
                                       \o SubSeq(entries, i + 1, Len(entries))), TRUE)

delete_entry(file, entry_id) ==
    LET entries == load_time_entries(file)
        i == EntryIndex(entries, entry_id)
    IN  IF i = 0 THEN Outcome(file, FALSE)
        ELSE IF entries[i].synced THEN Outcome(file, FALSE)
        ELSE Outcome(save_time_entries(SubSeq(entries, 1, i - 1)
                                       \o SubSeq(entries, i + 1, Len(entries))), TRUE)

\* get_entry_by_index that counts over all entries
get_entry_by_index_AllEntries(file, index) ==
    LET entries == load_time_entries(file)
    IN  IF 1 <= index /\ index <= Len(entries) THEN Some(entries[index]) ELSE None

get_entry_by_index(file, index) ==
    LET unsynced == get_unsynced_entries(file)
    IN  IF 1 <= index /\ index <= Len(unsynced) THEN Some(unsynced[index]) ELSE None

\* Calls of the storage methods.  uuid4 gives an id no stored entry has.
EntryIds == {"id-a", "id-b", "id-c"}

EntryStories == {[oid |-> "Story:1", number |-> "S-1"], [oid |-> "Story:2", number |-> "S-2"]}

ActualOids == {"Actual:7"}

EntryIndexes == 0..(MaxEntries + 1)

StoredIds(file) == {load_time_entries(file)[i].id : i \in DOMAIN load_time_entries(file)}

InitTime ==
    /\ BookmarksIdle
    /\ DetectIdle
    /\ DefaultsIdle
    /\ CacheIdle
    /\ SaveIdle
    /\ WorkflowIdle
    /\ TimeIdle
    /\ fn = "init"
    /\ args = <<>>
    /\ ret = <<>>

\* the call that ran last, its arguments, and what it left
TimeCall(name, a, r) ==
    /\ fn' = name
    /\ args' = a
    /\ ret' = r.value
    /\ time_entries' = r.file
    /\ old_time_entries' = time_entries
    /\ UNCHANGED <<bmVars, detVars, defVars, cacheVars, saveVars, wfVars>>

AddTimeEntry(id, story, now) ==
    /\ Len(load_time_entries(time_entries)) < MaxEntries
    /\ id \notin StoredIds(time_entries)
    /\ TimeCall("add_time_entry", [story |-> story],
                add_time_entry(time_entries, id, 1, story.oid, story.number, now))

MarkEntrySynced(entry_id, actual_oid, now) ==
    TimeCall("mark_entry_synced", [entry_id |-> entry_id],
             mark_entry_synced(time_entries, entry_id, actual_oid, now))

MoveEntry(entry_id, story) ==
    TimeCall("move_entry", [entry_id |-> entry_id, story |-> story],
             move_entry(time_entries, entry_id, story.oid, story.number))

DeleteEntry(entry_id) ==
    TimeCall("delete_entry", [entry_id |-> entry_id], delete_entry(time_entries, entry_id))

GetEntryByIndex(index) ==
    TimeCall("get_entry_by_index", [index |-> index],
             Outcome(time_entries, get_entry_by_index(time_entries, index)))

NextTime ==
    \/ \E id \in EntryIds, story \in EntryStories, now \in Timestamps : AddTimeEntry(id, story, now)
    \/ \E entry_id \in EntryIds, actual_oid \in ActualOids, now \in Timestamps :
            MarkEntrySynced(entry_id, actual_oid, now)
    \/ \E entry_id \in EntryIds, story \in EntryStories : MoveEntry(entry_id, story)
    \/ \E entry_id \in EntryIds : DeleteEntry(entry_id)
    \/ \E index \in EntryIndexes : GetEntryByIndex(index)

SpecTime == InitTime /\ [][NextTime]_vars

-----------------------------------------------------------------------------
(* V1Client.query_with_config and the request V1Client._query posts for it. *)
(* A select or sort entry is a field path as in the configurations; a       *)
(* filter is a Python str.                                                  *)

\* "AssetState!='Closed'"
NotClosed ==
    <<"A", "s", "s", "e", "t", "S", "t", "a", "t", "e", "!", "=", "'",
      "C", "l", "o", "s", "e", "d", "'">>

\* f"{parent_field}='{parent_oid}'"
ParentFilter(parent_field, parent_oid) ==
    parent_field \o <<"=", "'">> \o parent_oid \o <<"'">>

\* an Optional str or list in a condition: None and the empty one are false
Given(opt) == opt # None /\ opt[1] # <<>>

\* x or default
OrDefault(opt, default) == IF Given(opt) THEN opt[1] ELSE default

\* the filters list query_with_config builds
QueryFilters(parent_oid, parent_field, config_filters, include_done) ==
    (IF Given(parent_oid) THEN <<ParentFilter(parent_field, parent_oid[1])>> ELSE <<>>)
    \o (IF Given(config_filters) THEN config_filters[1] ELSE <<>>)
    \o (IF ~include_done THEN <<NotClosed>> ELSE <<>>)

\* the payload _query posts to /query.v1 (no where, no page_size): "filter"
\* and "sort" are set only when the list is not empty
QueryPayload(asset_type, select, filter_, sort) ==
    [from |-> asset_type, select |-> select,
     filter |-> IF Given(filter_) THEN filter_ ELSE None,
     sort |-> IF Given(sort) THEN sort ELSE None]

\* query_with_config without the minimal select and the default sort
query_with_config_NoFallback(asset_type, parent_oid, parent_field, config_select, config_filters, config_sort, include_done) ==
    LET filters == QueryFilters(parent_oid, parent_field, config_filters, include_done)
    IN  QueryPayload(asset_type, OrDefault(config_select, <<>>),
                     IF filters # <<>> THEN Some(filters) ELSE None,
                     Some(OrDefault(config_sort, <<>>)))

\* query_with_config, as the payload of the request it makes
query_with_config(asset_type, parent_oid, parent_field, config_select, config_filters, config_sort, include_done) ==
    LET filters == QueryFilters(parent_oid, parent_field, config_filters, include_done)
        select == OrDefault(config_select, <<F("Name"), F("Number")>>)
        sort == OrDefault(config_sort, <<F("Name")>>)
    IN  QueryPayload(asset_type, select,
                     IF filters # <<>> THEN Some(filters) ELSE None,
                     Some(sort))

\* the arguments query_with_config is called with
Super == <<"S", "u", "p", "e", "r">>

ScopeField == <<"S", "c", "o", "p", "e">>

FilterA == <<"A", "=", "1">>

QuerySelects ==
    {None, Some(<<>>), Some(<<F("Name")>>), Some(<<F("Number"), F2("Status", "Name")>>)}

QueryFilterLists ==
    {None, Some(<<>>), Some(<<FilterA>>), Some(<<NotClosed, FilterA, FilterA>>)}

QuerySorts == {None, Some(<<>>), Some(<<F("-ChangeDateUTC")>>), Some(<<F("Order"), F("Name")>>)}

QueryCalls ==
    [f : {"query_with_config"}, asset_type : {"Epic", "Story"},
     parent_oid : {None, Some(<<>>), Some(Oid(Epic, n1))},
     parent_field : {Super, ScopeField},
     config_select : QuerySelects, config_filters : QueryFilterLists,
     config_sort : QuerySorts, include_done : BOOLEAN]

InitQuery ==
    /\ BookmarksIdle
    /\ DetectIdle
    /\ DefaultsIdle
    /\ CacheIdle
    /\ RestIdle
    /\ fn = "init"
    /\ args \in QueryCalls
    /\ ret = <<>>

QueryWithConfig ==
    /\ fn = "init"
    /\ args.f = "query_with_config"
    /\ fn' = args.f
    /\ ret' = query_with_config(args.asset_type, args.parent_oid, args.parent_field,
                                args.config_select, args.config_filters, args.config_sort,
                                args.include_done)
    /\ UNCHANGED <<args, outsideRender>>

NextQuery == QueryWithConfig

SpecQuery == InitQuery /\ [][NextQuery]_vars

-----------------------------------------------------------------------------
(* config/workflow.py: the five story stages and the moves between them. *)

MaxPath == 5

\* the members of StoryStatus, in declaration order, by their values
StoryStatus == <<"backlog", "ready", "in_progress", "review", "done">>

STORY_TRANSITIONS_Shortcut ==
    [s \in Range(StoryStatus) |->
        CASE s = "backlog" -> <<"ready", "done">>
          [] s = "ready" -> <<"backlog", "in_progress">>
          [] s = "in_progress" -> <<"ready", "review">>
          [] s = "review" -> <<"in_progress", "done">>
          [] s = "done" -> <<"review">>]

STORY_TRANSITIONS ==
    [s \in Range(StoryStatus) |->
        CASE s = "backlog" -> <<"ready">>
          [] s = "ready" -> <<"backlog", "in_progress">>
          [] s = "in_progress" -> <<"ready", "review">>
          [] s = "review" -> <<"in_progress", "done">>
          [] s = "done" -> <<"review">>]

\* STORY_TRANSITIONS.get(current, [])
get_valid_transitions(current) ==
    IF current \in DOMAIN STORY_TRANSITIONS THEN STORY_TRANSITIONS[current] ELSE <<>>

can_transition(from_status, to_status) ==
    to_status \in Range(get_valid_transitions(from_status))

\* A story starts at any stage and has taken no step yet.
InitWorkflow ==
    /\ BookmarksIdle
    /\ DetectIdle
    /\ DefaultsIdle
    /\ CacheIdle
    /\ SaveIdle
    /\ TimeIdle
    /\ path \in {<<s>> : s \in Range(StoryStatus)}
    /\ status_mapping = <<>>
    /\ story_status_oid = None
    /\ modal = None
    /\ fn = "init"
    /\ args = <<>>
    /\ ret = <<>>

\* can_transition is asked about any two stages
CanTransition(from_status, to_status) ==
    /\ fn' = "can_transition"
    /\ args' = [from_status |-> from_status, to_status |-> to_status]
    /\ ret' = can_transition(from_status, to_status)
    /\ UNCHANGED <<bmVars, detVars, defVars, cacheVars, restVars>>

\* the story takes a step that can_transition allows from where it stands
FollowTransition(to_status) ==
    /\ Len(path) < MaxPath
    /\ can_transition(path[Len(path)], to_status)
    /\ path' = Append(path, to_status)
    /\ fn' = "follow"
    /\ args' = [from_status |-> path[Len(path)], to_status |-> to_status]
    /\ ret' = TRUE
    /\ UNCHANGED <<bmVars, detVars, defVars, cacheVars, saveVars, timeVars,
                   status_mapping, story_status_oid, modal>>

NextWorkflow ==
    \/ \E a \in Range(StoryStatus), b \in Range(StoryStatus) : CanTransition(a, b)
    \/ \E b \in Range(StoryStatus) : FollowTransition(b)

SpecWorkflow == InitWorkflow /\ [][NextWorkflow]_vars

-----------------------------------------------------------------------------
(* The two ways a story's status is changed: the 'v1 status' command
   (cli.py) and the status modal of the TUI (tui/screens/stories.py), with
   StatusMapping (config/settings.py) and StoryStatus.from_string. *)

\* s.replace(c, d) for single characters
ReplaceChar(s, c, d) == [i \in DOMAIN s |-> IF s[i] = c THEN d ELSE s[i]]

\* the value of each member of StoryStatus, as text
StatusValue ==
    [s \in Range(StoryStatus) |->
        CASE s = "backlog" -> <<"b", "a", "c", "k", "l", "o", "g">>
          [] s = "ready" -> <<"r", "e", "a", "d", "y">>
          [] s = "in_progress" -> <<"i", "n", "_", "p", "r", "o", "g", "r", "e", "s", "s">>
          [] s = "review" -> <<"r", "e", "v", "i", "e", "w">>
          [] s = "done" -> <<"d", "o", "n", "e">>]

\* the aliases of from_string: text and the member it stands for
Aliases ==
    {<<<<"p", "r", "o", "g", "r", "e", "s", "s">>, "in_progress">>,
     <<<<"i", "n", "p", "r", "o", "g", "r", "e", "s", "s">>, "in_progress">>,
     <<<<"w", "i", "p">>, "in_progress">>,
     <<<<"t", "o", "d", "o">>, "backlog">>,
     <<<<"n", "e", "w">>, "backlog">>,
     <<<<"c", "o", "m", "p", "l", "e", "t", "e">>, "done">>,
     <<<<"c", "o", "m", "p", "l", "e", "t", "e", "d">>, "done">>,
     <<<<"f", "i", "n", "i", "s", "h", "e", "d">>, "done">>}

\* StoryStatus(value): the member with this value; ValueError when there is none
StoryStatusOf(value) ==
    IF \E s \in Range(StoryStatus) : StatusValue[s] = value
    THEN [raised |-> None, value |-> CHOOSE s \in Range(StoryStatus) : StatusValue[s] = value]
    ELSE [raised |-> Some("ValueError"), value |-> None]

from_string(value) ==
    LET normalized == ReplaceChar(ReplaceChar(Lower(value), " ", "_"), "-", "_")
    IN  IF \E a \in Aliases : a[1] = normalized
        THEN [raised |-> None, value |-> (CHOOSE a \in Aliases : a[1] = normalized)[2]]
        ELSE StoryStatusOf(normalized)

\* an optional text used as a condition: None and "" count as false
Mapped(opt) == opt # None /\ opt[1] # ""

\* StatusMapping.get_oid
get_oid(mapping, status) == mapping[status]

\* StatusMapping.get_status: the first member mapped to this OID
get_status(mapping, oid) ==
    IF \E i \in DOMAIN StoryStatus : mapping[StoryStatus[i]] = Some(oid)
    THEN Some(StoryStatus[CHOOSE i \in DOMAIN StoryStatus :
                 /\ mapping[StoryStatus[i]] = Some(oid)
                 /\ \A j \in 1..(i - 1) : mapping[StoryStatus[j]] # Some(oid)])
    ELSE None

\* StatusMapping.is_configured
is_configured(mapping) == \E s \in Range(StoryStatus) : Mapped(mapping[s])

\* what the command did: its exit code, the status OID it sent for the story
\* (None when it sent nothing) and the stage it was asked for
StatusResult(exit_code, sent, target_status) ==
    [exit_code |-> exit_code, sent |-> sent, target_status |-> target_status]

\* 'v1 status NUMBER NEW_STATUS'; answer is what the service does with the
\* requests: "updated", "not_found" (no such story) or "error"
status(mapping, current_oid, new_status, answer) ==
    IF ~is_configured(mapping) THEN StatusResult(1, None, None)
    ELSE LET parsed == from_string(new_status)
         IN  IF parsed.raised # None THEN StatusResult(1, None, None)
             ELSE LET target_status == parsed.value
                      status_oid == get_oid(mapping, target_status)
                  IN  IF ~Mapped(status_oid) THEN StatusResult(1, None, Some(target_status))
                      ELSE IF answer # "updated" THEN StatusResult(1, None, Some(target_status))
                      ELSE StatusResult(0, status_oid, Some(target_status))

\* StatusModal.__init__ for a story with this status OID
StatusModal(mapping, status_oid) ==
    LET current_status == IF Mapped(status_oid) THEN get_status(mapping, status_oid[1]) ELSE None
    IN  [current_status |-> current_status,
         valid_targets |-> IF current_status # None
                           THEN get_valid_transitions(current_status[1]) ELSE <<>>]

\* StatusModal._update_status for the option the user selected
_update_status(mapping, status_value, answer) ==
    LET target_status == StoryStatusOf(status_value).value
        status_oid == get_oid(mapping, target_status)
    IN  IF ~Mapped(status_oid) THEN StatusResult(1, None, Some(target_status))
        ELSE IF answer # "updated" THEN StatusResult(1, None, Some(target_status))
        ELSE StatusResult(0, status_oid, Some(target_status))

StatusOids == {"StoryStatus:1", "StoryStatus:2", "StoryStatus:3", "StoryStatus:4", "StoryStatus:5"}

\* every stage mapped
FullMapping ==
    [s \in Range(StoryStatus) |->
        Some(CASE s = "backlog" -> "StoryStatus:1"
               [] s = "ready" -> "StoryStatus:2"
               [] s = "in_progress" -> "StoryStatus:3"
               [] s = "review" -> "StoryStatus:4"
               [] s = "done" -> "StoryStatus:5")]

\* as the settings file can hold it: all mapped, review left out, done set
\* to the empty text, nothing mapped
Mappings ==
    {FullMapping,
     [FullMapping EXCEPT !["review"] = None],
     [FullMapping EXCEPT !["done"] = Some("")],
     [s \in Range(StoryStatus) |-> None]}

\* what the user types after the story number
NewStatuses ==
    {<<"d", "o", "n", "e">>,
     <<"D", "O", "N", "E">>,
     <<"i", "n", " ", "p", "r", "o", "g", "r", "e", "s", "s">>,
     <<"I", "n", "-", "P", "r", "o", "g", "r", "e", "s", "s">>,
     <<"w", "i", "p">>,
     <<"t", "o", "d", "o">>,
     <<"f", "i", "n", "i", "s", "h", "e", "d">>,
     <<"r", "e", "a", "d", "y">>,
     <<"r", "e", "v", "i", "e", "w">>,
     <<"b", "a", "c", "k", "l", "o", "g">>,
     <<"b", "o", "g", "u", "s">>}

ServiceAnswers == {"updated", "not_found", "error"}

\* The story has any status of the service, mapped or not, or none.
InitStatus ==
    /\ BookmarksIdle
    /\ DetectIdle
    /\ DefaultsIdle
    /\ CacheIdle
    /\ SaveIdle
    /\ TimeIdle
    /\ path = <<>>
    /\ status_mapping \in Mappings
    /\ story_status_oid \in {None} \cup {Some(o) : o \in StatusOids \cup {"StoryStatus:9"}}
    /\ modal = None
    /\ fn = "init"
    /\ args = <<>>
    /\ ret = <<>>

\* a handler ran on the story as the service held it, and what it sent took effect
StatusCall(name, a, r) ==
    /\ fn' = name
    /\ args' = a
    /\ ret' = r
    /\ story_status_oid' = IF r.sent # None THEN r.sent ELSE story_status_oid
    /\ UNCHANGED <<bmVars, detVars, defVars, cacheVars, saveVars, timeVars, path, status_mapping>>

StatusCommand(new_status, answer) ==
    /\ StatusCall("status",
                  [new_status |-> new_status, answer |-> answer, was |-> story_status_oid],
                  status(status_mapping, story_status_oid, new_status, answer))
    /\ UNCHANGED modal

\* the TUI opens the modal on the story as it is
OpenStatusModal ==
    /\ modal = None
    /\ modal' = Some(StatusModal(status_mapping, story_status_oid))
    /\ fn' = "StatusModal"
    /\ args' = [was |-> story_status_oid]
    /\ ret' = <<>>
    /\ UNCHANGED <<bmVars, detVars, defVars, cacheVars, saveVars, timeVars, path,
                   status_mapping, story_status_oid>>

\* the user picks one of the options the modal lists; the modal closes when
\* the update went through
SelectOption(i, answer) ==
    /\ modal # None
    /\ i \in DOMAIN modal[1].valid_targets
    /\ LET r == _update_status(status_mapping, StatusValue[modal[1].valid_targets[i]], answer)
       IN  /\ StatusCall("_update_status",
                         [status_value |-> modal[1].valid_targets[i], answer |-> answer,
                          was |-> story_status_oid], r)
           /\ modal' = IF r.sent # None THEN None ELSE modal

CancelModal ==
    /\ modal # None
    /\ modal' = None
    /\ fn' = "action_cancel"
    /\ args' = <<>>
    /\ ret' = <<>>
    /\ UNCHANGED <<bmVars, detVars, defVars, cacheVars, saveVars, timeVars, path,
                   status_mapping, story_status_oid>>

NextStatus ==
    \/ \E new_status \in NewStatuses, answer \in ServiceAnswers : StatusCommand(new_status, answer)
    \/ OpenStatusModal
    \/ \E i \in 1..2, answer \in {"updated", "error"} : SelectOption(i, answer)
    \/ CancelModal

SpecStatus == InitStatus /\ [][NextStatus]_vars

-----------------------------------------------------------------------------
(* Properties of the resolver (checked under SpecResolve). *)

\* position of the first bookmark whose OID numeric suffix is num, 0 if none
FirstWithSuffix(bms, num) ==
    IF \E i \in DOMAIN bms : OidNum(bms[i].oid) = num
    THEN CHOOSE i \in DOMAIN bms :
            OidNum(bms[i].oid) = num /\ \A j \in 1..(i - 1) : OidNum(bms[j].oid) # num
    ELSE 0

\* position of the first bookmark whose name is s ignoring case, 0 if none
FirstWithName(bms, s) ==
    IF \E i \in DOMAIN bms : Lower(bms[i].name) = Lower(s)
    THEN CHOOSE i \in DOMAIN bms :
            Lower(bms[i].name) = Lower(s) /\ \A j \in 1..(i - 1) : Lower(bms[j].name) # Lower(s)
    ELSE 0

At(bms, i) == IF i = 0 THEN None ELSE Some(bms[i])

\* C1: an all-digit identifier whose value n has 1 <= n <= 99 and
\* n <= len(bookmarks) resolves to bookmarks[n-1] (position n counted from 1),
\* whatever the names and OIDs in the list are.
C1_PositionalIndexWins ==
    (op = "get" /\ IsDigit(ident) /\ 1 <= ToInt(ident) /\ ToInt(ident) <= 99
        /\ ToInt(ident) <= Len(bookmarks))
    => result = Some(bookmarks[ToInt(ident)])

\* C1 witness: a position was resolved although another bookmark carries the
\* identifier as its name or as its OID number.
C1_Witness ==
    /\ op = "get" /\ IsDigit(ident)
    /\ 1 <= ToInt(ident) /\ ToInt(ident) <= Len(bookmarks)
    /\ result = Some(bookmarks[ToInt(ident)])
    /\ \E j \in DOMAIN bookmarks :
          /\ bookmarks[j] # bookmarks[ToInt(ident)]
          /\ bookmarks[j].name = ident \/ OidNum(bookmarks[j].oid) = ident

\* C2: an all-digit identifier whose value is above 99 is never a position,
\* even when the list is that long: the result is the first bookmark whose OID
\* numeric suffix equals the identifier without its leading zeros (when no
\* suffix matches, the lookup goes on by name and ends in None).
C2_LargeNumberIsDisplayNumber ==
    (op = "get" /\ IsDigit(ident) /\ ToInt(ident) > 99)
    => LET num == LStripZeros(ident)
       IN  IF FirstWithSuffix(bookmarks, num) # 0
           THEN result = Some(bookmarks[FirstWithSuffix(bookmarks, num)])
           ELSE result = At(bookmarks, FirstWithName(bookmarks, ident))

\* C2 witness: the list has a position for the number, and the bookmark found
\* by display number is another one.
C2_Witness ==
    /\ op = "get" /\ IsDigit(ident)
    /\ ToInt(ident) > 99 /\ ToInt(ident) <= Len(bookmarks)
    /\ result # None
    /\ result # Some(bookmarks[ToInt(ident)])
    /\ OidNum(result[1].oid) = LStripZeros(ident)

\* position of the first bookmark whose OID is s ignoring case, 0 if none
FirstWithOid(bms, s) ==
    IF \E i \in DOMAIN bms : Lower(bms[i].oid) = Lower(s)
    THEN CHOOSE i \in DOMAIN bms :
            Lower(bms[i].oid) = Lower(s) /\ \A j \in 1..(i - 1) : Lower(bms[j].oid) # Lower(s)
    ELSE 0

\* C3: an identifier with a colon whose text before the first colon is
\* alphabetic resolves to the first bookmark whose OID equals it ignoring case,
\* and to None when no OID matches, also when a bookmark is named like it.
C3_TokenNoFallback ==
    (op = "get" /\ Contains(ident, ":") /\ IsAlpha(SplitFirst(ident, ":")))
    => result = At(bookmarks, FirstWithOid(bookmarks, ident))

\* C3 witness: a token matched no OID, a bookmark has the token as its name,
\* and the result is None.
C3_Witness ==
    /\ op = "get" /\ Contains(ident, ":") /\ IsAlpha(SplitFirst(ident, ":"))
    /\ FirstWithOid(bookmarks, ident) = 0
    /\ FirstWithName(bookmarks, ident) # 0
    /\ result = None

\* the identifiers 'E-' + z zeros + d, with the prefix in either case
V1Forms(d) ==
    {p \o Zeros(z) \o d : p \in {<<"E", "-">>, <<"e", "-">>}, z \in 0..MaxZeros}

\* C4 as claimed: for every bookmark list, every number d and every count of
\* leading zeros, all the identifiers 'E-' + zeros + d resolve to the same result.
C4_Original ==
    op = "get"
    => \A d \in DisplayNums :
          ident \in V1Forms(d)
          => \A other \in V1Forms(d) : get_bookmark(bookmarks, other) = result

\* C4 as amended: when some bookmark's OID numeric suffix equals d without
\* its leading zeros, all the identifiers 'E-' + zeros + d resolve to the same
\* bookmark, the first one with that suffix.
C4_LeadingZerosEquivalent ==
    op = "get"
    => \A d \in DisplayNums :
          (ident \in V1Forms(d) /\ FirstWithSuffix(bookmarks, OrZero(LStripZeros(d))) # 0)
          => \A other \in V1Forms(d) :
                /\ get_bookmark(bookmarks, other) = result
                /\ result = Some(bookmarks[FirstWithSuffix(bookmarks, OrZero(LStripZeros(d)))])

\* C4 witness: E-0100 (or e-00100) resolved to a bookmark whose OID ends in :100.
C4_Witness ==
    /\ op = "get"
    /\ ident \in V1Forms(n100) /\ ident[3] = "0"
    /\ result # None
    /\ OidNum(result[1].oid) = n100

C23_WitnessByName ==
    /\ op = "get" /\ IsDigit(ident) /\ ToInt(ident) > Len(bookmarks)
    /\ result # None
    /\ OidNum(result[1].oid) # LStripZeros(ident)
    /\ result[1].name = ident

-----------------------------------------------------------------------------
(* Properties of the Settings operations (checked under Spec). *)

\* s without its element at position i
RemoveAt(s, i) == SubSeq(s, 1, i - 1) \o SubSeq(s, i + 1, Len(s))

\* C10: remove_bookmark(identifier), when the identifier resolves to a bookmark
\* b, takes one b out of the list and returns b, and default_project becomes
\* None exactly when it was b's OID, else keeps its value; when the identifier
\* resolves to nothing it returns None and leaves list and default unchanged.
C10_RemoveBookmark ==
    op = "remove"
    => LET found == get_bookmark(old_bookmarks, ident)
       IN  IF found # None
           THEN /\ result = found
                /\ \E i \in DOMAIN old_bookmarks :
                      old_bookmarks[i] = found[1] /\ bookmarks = RemoveAt(old_bookmarks, i)
                /\ (default_project = None /\ old_default # None)
                      <=> old_default = Some(found[1].oid)
                /\ old_default # Some(found[1].oid) => default_project = old_default
           ELSE /\ result = None
                /\ bookmarks = old_bookmarks
                /\ default_project = old_default

\* C10 witness: the removed bookmark was the default, and the default is now unset.
C10_Witness ==
    /\ op = "remove"
    /\ result # None
    /\ old_default = Some(result[1].oid)
    /\ default_project = None
    /\ Len(bookmarks) = Len(old_bookmarks) - 1

-----------------------------------------------------------------------------
(* Properties of schema detection (checked under SpecDetect). *)

\* the schema the k-th probe saw: the names the service listed, nothing when
\* the fetch raised
ProbedSchema(k) ==
    IF probe_log[k].ok THEN Range(probe_log[k].attributes) ELSE {}

\* the entries of fields whose text before the first '.' is in schema
Supported(fields, schema) == SelectSeq(fields, LAMBDA f : f[1] \in schema)

\* the attribute records of the column objects ids, read in heap h
ColumnValues(ids, h) == [i \in DOMAIN ids |-> h[ids[i]]]

\* C5: with a non-empty probed schema, detect_asset_config returns as select
\* (and as sort) exactly the desired entries whose base segment is in the
\* schema, in order, and returns the desired filters unchanged.
C5_SelectAndSortFiltered ==
    (mode = "detect" /\ pc = "done" /\ ProbedSchema(1) # {})
    => /\ config.select = Supported(desired.select, ProbedSchema(1))
       /\ config.sort = Supported(desired.sort, ProbedSchema(1))
       /\ config.filters = desired.filters

\* C5 witness: Status.Name was kept because Status is in the schema, and
\* Ghost.Name was dropped although Name is in the schema.
C5_Witness ==
    /\ mode = "detect" /\ pc = "done"
    /\ ProbedSchema(1) = {"Name", "Number", "Status"}
    /\ desired.select = <<F2("Ghost", "Name"), F2("Status", "Name")>>
    /\ config.select = <<F2("Status", "Name")>>
    /\ desired.filters # <<>>
    /\ desired.sort = <<F("-Name"), F2("Status", "Name")>>

\* C6: when the probe yields the empty set, detect_asset_config returns select,
\* filters, sort and columns equal to the desired ones, in the same order.
C6_EmptySchemaGivesDefaults ==
    (mode = "detect" /\ pc = "done" /\ ProbedSchema(1) = {})
    => /\ config.select = desired.select
       /\ config.filters = desired.filters
       /\ config.sort = desired.sort
       /\ ColumnValues(config.columns, heap) = ColumnValues(desired.columns, heap0)

\* C6 witness: the fetch raised, and a field no schema has is still selected.
C6_Witness ==
    /\ mode = "detect" /\ pc = "done"
    /\ ~probe_log[1].ok
    /\ F2("Ghost", "Name") \in Range(config.select)
    /\ Len(config.columns) = MaxFields
    /\ config.sort # <<>>

\* C7: filter_valid_columns keeps, in order, exactly the desired columns whose
\* base segment is in the schema; every kept column is a new object with the
\* attributes of the original, and a change made to a returned column never
\* shows in a desired column.
C7_ColumnsAreCopies ==
    (mode = "filter" /\ pc \in {"done", "modified"})
    => LET kept == SelectSeq(desired.columns, LAMBDA id : heap0[id].field[1] \in available)
       IN  /\ Len(config) = Len(kept)
           /\ \A i \in DOMAIN config :
                 /\ config[i] \notin DOMAIN heap0
                 /\ \A j \in DOMAIN config : j # i => config[j] # config[i]
                 /\ pc = "done" => heap[config[i]] = heap0[kept[i]]
           /\ \A id \in DOMAIN heap0 : heap[id] = heap0[id]

\* C7 witness: a returned column was changed after the call.
C7_Witness ==
    /\ mode = "filter" /\ pc = "modified"
    /\ Len(config) < Len(desired.columns)
    /\ \E i \in DOMAIN config : heap[config[i]].label = Some("changed")

\* C8: get_available_attributes returns the set of attribute names when the
\* fetch succeeds and the empty set when it raises, never lets the exception
\* through, and fetches exactly once per probe.
C8_ProbeNeverRaises ==
    mode \in {"detect", "auto"}
    => /\ pc # "crashed"
       /\ fetches = Len(probe_log) + (IF pc = "fetched" THEN 1 ELSE 0)
       /\ probes = Len(probe_log) + (IF pc \in {"fetching", "fetched"} THEN 1 ELSE 0)
       /\ pc = "build"
          => available = (IF fetch_result.ok THEN Range(fetch_result.attributes) ELSE {})

\* C8 witness: a probe whose fetch raised has returned the empty set.
C8_Witness ==
    /\ mode = "detect" /\ pc = "build"
    /\ ~fetch_result.ok
    /\ available = {}
    /\ fetches = 1 /\ probes = 1

\* the defaults of the four kinds, as v1cli.config.defaults and the calls in
\* auto_detect_project_config name them
KindSelect == <<DEFAULT_DELIVERY_GROUP_SELECT, DEFAULT_FEATURE_SELECT,
                DEFAULT_STORY_SELECT, DEFAULT_TASK_SELECT>>

KindFilters == <<DEFAULT_DELIVERY_GROUP_FILTERS, DEFAULT_FEATURE_FILTERS,
                 DEFAULT_STORY_FILTERS, DEFAULT_TASK_FILTERS>>

KindColumns == <<DEFAULT_DELIVERY_GROUP_COLUMNS, DEFAULT_FEATURE_COLUMNS,
                 DEFAULT_STORY_COLUMNS, DEFAULT_TASK_COLUMNS>>

KindSort == <<<<F("PlannedStart"), F("Name")>>, <<F("-ChangeDateUTC")>>,
              <<F("-ChangeDateUTC")>>, <<F("Order")>>>>

\* C9: auto_detect_project_config never raises and never stops half way; its
\* result has a timestamp, and each of the four kinds holds its own defaults
\* when its own probe gave nothing, and its own defaults filtered against its
\* own probed schema otherwise.
C9_KindsIndependent ==
    mode = "auto"
    => /\ pc # "crashed"
       /\ pc \notin {"done", "modified"} => ENABLED NextDetect
       /\ pc = "done"
          => /\ project_config.last_detected # None
             /\ \A k \in Kinds :
                   LET c == project_config.kinds[k]
                       schema == ProbedSchema(k)
                   IN  /\ c.filters = KindFilters[k]
                       /\ c.select = IF schema = {} THEN KindSelect[k]
                                     ELSE Supported(KindSelect[k], schema)
                       /\ c.sort = IF schema = {} THEN KindSort[k]
                                   ELSE Supported(KindSort[k], schema)
                       /\ ColumnValues(c.columns, heap)
                             = IF schema = {} THEN KindColumns[k]
                               ELSE SelectSeq(KindColumns[k], LAMBDA col : col.field[1] \in schema)

\* C9 witness: the feature probe failed and the features hold the defaults,
\* while stories and tasks were filtered against their own schemas.
C9_Witness ==
    /\ mode = "auto" /\ pc = "done"
    /\ ~probe_log[2].ok
    /\ project_config.kinds[2].select = DEFAULT_FEATURE_SELECT
    /\ probe_log[3].ok /\ probe_log[3].attributes = <<"Name">>
    /\ project_config.kinds[3].select = <<F("Name")>>
    /\ probe_log[4].ok /\ probe_log[4].attributes = FullAttrs
    /\ project_config.kinds[4].select = DEFAULT_TASK_SELECT

\* the attribute a sort key sorts by: the key without its leading '-'
SortAttribute(key) ==
    IF key = F("-ChangeDateUTC") THEN "ChangeDateUTC"
    ELSE IF key = F("-Name") THEN "Name"
    ELSE key[1]

\* C24: with a non-empty probed schema, every desired sort key whose attribute
\* (the key without a leading '-') is in the schema is in the sort
\* detect_asset_config returns; auto-detection against schemas that contain
\* ChangeDateUTC gives features and stories the sort ['-ChangeDateUTC'].
C24_DescendingSortKept ==
    /\ (mode = "detect" /\ pc = "done" /\ ProbedSchema(1) # {})
       => \A i \in DOMAIN desired.sort :
             SortAttribute(desired.sort[i]) \in ProbedSchema(1)
             => \E j \in DOMAIN config.sort : config.sort[j] = desired.sort[i]
    /\ (mode = "auto" /\ pc = "done")
       => \A k \in {2, 3} :
             "ChangeDateUTC" \in ProbedSchema(k)
             => project_config.kinds[k].sort = <<F("-ChangeDateUTC")>>

-----------------------------------------------------------------------------
(* Properties of a Settings object built from nothing by add_bookmark and   *)
(* remove_bookmark (checked under SpecFresh).                               *)

\* C11: add_bookmark(name, oid), when a bookmark whose name equals name
\* ignoring case is in the list, leaves the length and the order of the list
\* as they were, makes that bookmark's OID oid, and leaves the name and the
\* OID of every other bookmark as they were.
C11_UpdateExisting ==
    (op = "add" /\ FirstWithName(old_bookmarks, ident) # 0)
    => LET i == FirstWithName(old_bookmarks, ident)
       IN  /\ Len(bookmarks) = Len(old_bookmarks)
           /\ bookmarks[i].name = old_bookmarks[i].name
           /\ bookmarks[i].oid = oid_arg[1]
           /\ \A j \in DOMAIN old_bookmarks \ {i} :
                  /\ bookmarks[j].name = old_bookmarks[j].name
                  /\ bookmarks[j].oid = old_bookmarks[j].oid

\* C12: in every list built from the empty list by add_bookmark and
\* remove_bookmark calls, no two bookmarks have names that are equal ignoring
\* case.
C12_NamesUnique ==
    \A i, j \in DOMAIN bookmarks :
        i # j => Lower(bookmarks[i].name) # Lower(bookmarks[j].name)

\* C20: remove_bookmark with the positional identifier k (1 <= k <= 99,
\* k <= len) leaves the bookmarks below position k where they were, moves
\* every bookmark above position k one position down, and clears the default
\* exactly when it was the OID of the bookmark at position k.
C20_PositionalRemoveKeepsOrder ==
    (op = "remove" /\ IsDigit(ident) /\ IsProjectNumber(old_bookmarks, ToInt(ident)))
    => LET k == ToInt(ident)
       IN  /\ Len(bookmarks) = Len(old_bookmarks) - 1
           /\ \A j \in 1..(k - 1) : bookmarks[j] = old_bookmarks[j]
           /\ \A j \in k..(Len(old_bookmarks) - 1) : bookmarks[j] = old_bookmarks[j + 1]
           /\ default_project =
                  IF old_default = Some(old_bookmarks[k].oid) THEN None ELSE old_default

-----------------------------------------------------------------------------
(* Properties of the display functions (checked under SpecRender). *)

\* one step of a walk: the value under key part of a mapping, None when
\* value is not a mapping or has no such key
StepInto(value, part) ==
    IF value.t = "dict" /\ DictHas(value.v, part) THEN DictLookup(value.v, part) ELSE PyNone

\* the value the segments of parts lead to from the record item
WalkTo(item, parts) ==
    LET chain[i \in 0..Len(parts)] ==
            IF i = 0 THEN PyDict(item) ELSE StepInto(chain[i - 1], parts[i])
    IN  chain[Len(parts)]

\* C13: for a dotted path, get_nested_field returns the value of the key that
\* is the whole dotted path when the record has that key (also when a nested
\* value exists for the path); otherwise it walks the segments through nested
\* mappings and returns None from the first segment that is missing or whose
\* parent is not a mapping.
C13_DottedKeyThenWalk ==
    (fn = "get_nested_field" /\ Contains(args.field, "."))
    => IF DictHas(args.item, args.field)
       THEN ret = DictLookup(args.item, args.field)
       ELSE ret = WalkTo(args.item, Split(args.field, "."))

\* C13 witness: the record has the dotted key and also a nested value for the
\* same path, the two differ, and the dotted key's value was returned.
C13_Witness ==
    /\ fn = "get_nested_field"
    /\ Contains(args.field, ".")
    /\ DictHas(args.item, args.field)
    /\ WalkTo(args.item, Split(args.field, ".")) \notin {PyNone, DictLookup(args.item, args.field)}
    /\ ret = DictLookup(args.item, args.field)
    /\ ret # PyNone

\* the text a list is turned into: its elements' texts joined by ', '
JoinedText(l) == Join(<<",", " ">>, [i \in DOMAIN l |-> Str(l[i])])

\* value (a list taken as its joined text) is not the text of a number
NotANumber(value) ==
    ~ToFloat(IF value.t = "list" THEN PyStr(JoinedText(value.v)) ELSE value).ok

\* C14: format_value returns "-" for None whatever the format type and
\* max_width, "-" for an empty list, and, for a max_width that is unset or not
\* negative, "-" for a value that is not the text of a number under the format
\* types percent, points and hours; a non-empty list gives what its elements
\* joined by ', ' give.
C14_Placeholder ==
    fn = "format_value"
    => /\ args.value = PyNone => ret = Returned(Dash)
       /\ args.value = PyList(<<>>) => ret = Returned(Dash)
       /\ (/\ args.format_type \in {Some("percent"), Some("points"), Some("hours")}
           /\ args.value # PyNone
           /\ NotANumber(args.value)
           /\ args.max_width = None \/ args.max_width[1] >= 0)
          => ret = Returned(Dash)
       /\ (args.value.t = "list" /\ args.value.v # <<>>)
          => ret = format_value(PyStr(JoinedText(args.value.v)), args.format_type,
                                args.max_width)

\* C14 witness: a list of two elements under a numeric format type: joined
\* it is not a number, and the placeholder was returned.
C14_Witness ==
    /\ fn = "format_value"
    /\ args.value.t = "list"
    /\ Len(args.value.v) = 2
    /\ args.format_type = Some("percent")
    /\ args.max_width = Some(1)
    /\ ret = Returned(Dash)

\* s ends with "..."
EndsWithDots(str) == Len(str) >= 3 /\ SubSeq(str, Len(str) - 2, Len(str)) = <<".", ".", ".">>

\* C15: for every max_width >= 1, when the formatted text is longer than
\* max_width the string returned has length max_width and ends with "...",
\* and a formatted text that is not longer is returned as it is.
C15_TruncatedToWidth ==
    (fn = "format_value" /\ ret.raised = None
        /\ args.max_width # None /\ args.max_width[1] >= 1)
    => LET text == format_value(args.value, args.format_type, None).value
       IN  IF Len(text) > args.max_width[1]
           THEN Len(ret.value) = args.max_width[1] /\ EndsWithDots(ret.value)
           ELSE ret.value = text

\* the columns C16 names: config.columns, or one per select entry
ClaimedColumns(cfg) ==
    IF cfg.columns # <<>> THEN cfg.columns
    ELSE [i \in DOMAIN cfg.select |-> BasicColumn(cfg.select[i])]

\* C16: build_table_from_config returns a table with one row per record, in
\* the order of the records, one cell per column in each row; the columns are
\* config.columns when that is not empty, else one per select entry in select
\* order; a header is the column's label, or its field when it has no (or an
\* empty) label.
C16_TableShape ==
    fn = "build_table_from_config"
    => /\ ret.raised = None
       /\ LET table == ret.table[1]
               columns == ClaimedColumns(args.config)
           IN  /\ Len(table.rows) = Len(args.items)
               /\ Len(table.columns) = Len(columns)
               /\ \A c \in DOMAIN columns :
                      table.columns[c].header =
                          IF columns[c].label \in {None, Some(<<>>)}
                          THEN columns[c].field ELSE columns[c].label[1]
               /\ \A r \in DOMAIN args.items :
                      /\ Len(table.rows[r]) = Len(columns)
                      /\ \A c \in DOMAIN columns :
                             table.rows[r][c] = Cell(args.items[r], columns[c]).value

\* C25: format_value raises no exception, whatever the value (None, texts,
\* numbers, infinities and NaN and their texts, lists, dicts), the format type
\* and the max_width are: every call returns a string.
C25_FormatNeverRaises ==
    fn = "format_value" => ret.raised = None

-----------------------------------------------------------------------------
(* Properties of the default configurations (checked under SpecDefaults). *)

\* what a configuration holds: the content of its lists, the columns as
\* their attributes
ConfigValue(st, cfg) ==
    [select |-> st[cfg.select].v, filters |-> st[cfg.filters].v, sort |-> st[cfg.sort].v,
     columns |-> [i \in DOMAIN st[cfg.columns].v |-> st[st[cfg.columns].v[i]].v]]

\* what the defaults module defines for kind k
DefaultValue(k) ==
    [select |-> KindArgs(k).select, filters |-> KindArgs(k).filters, sort |-> KindArgs(k).sort,
     columns |-> [i \in DOMAIN KindArgs(k).columns |-> DefaultsHeap[KindArgs(k).columns[i]]]]

\* C17: whatever the caller changes in one returned configuration (its
\* select, filters, sort or columns), the module-level default lists and
\* columns stay as defined, every other configuration returned so far keeps
\* its value, and a configuration returned by a later call has the default
\* value of its kind.
C17_DefaultsIndependent ==
    [][/\ SubSeq(store', 1, Len(ModuleStore)) = ModuleStore
       /\ \A e \in DOMAIN returned' : \A j \in DOMAIN returned'[e] :
              IF e \in DOMAIN returned
              THEN <<e, j>> \notin edited' \ edited
                   => ConfigValue(store', returned'[e][j].config)
                          = ConfigValue(store, returned[e][j].config)
              ELSE ConfigValue(store', returned'[e][j].config)
                       = DefaultValue(returned'[e][j].kind)]_vars

\* C17 witness: two story configurations were returned, the caller changed
\* the first, and the second has the default value.
C17_Witness ==
    /\ Len(returned) = 2
    /\ returned[1][1].kind = 3
    /\ returned[2][1].kind = 3
    /\ edited = {<<1, 1>>}
    /\ ConfigValue(store, returned[1][1].config) # DefaultValue(3)
    /\ ConfigValue(store, returned[2][1].config) = DefaultValue(3)

-----------------------------------------------------------------------------
(* Properties of the row-reference cache (checked under SpecCache). *)

\* row i of the list rows, counted from 1; None when there is no such row
RowAt(rows, i) == IF 1 <= i /\ i <= Len(rows) THEN Some(rows[i]) ELSE None

\* C18: after cache_features(L), get_cached_feature(i) is L[i-1] for
\* 1 <= i <= len(L) and None for every other i, whatever was cached before,
\* and the stories cache is as it was; the same for cache_stories and
\* get_cached_story with the features cache untouched; without a cache file
\* a lookup returns None; a lookup changes neither file.
C18_CacheStoreLookup ==
    /\ fn = "cache_features"
       => /\ \A i \in Indexes :
                get_cached_feature(features_cache, i) = RowAt(args.features, i)
          /\ stories_cache = old_stories_cache
    /\ fn = "cache_stories"
       => /\ \A i \in Indexes :
                get_cached_story(stories_cache, i) = RowAt(args.stories, i)
          /\ features_cache = old_features_cache
    /\ fn = "get_cached_feature"
       => /\ features_cache = None => ret = None
          /\ features_cache = old_features_cache /\ stories_cache = old_stories_cache
    /\ fn = "get_cached_story"
       => /\ stories_cache = None => ret = None
          /\ features_cache = old_features_cache /\ stories_cache = old_stories_cache

\* C18 witness: a list of one row was stored over a cached list of two rows
\* while stories were cached: row 1 is the new row, row 2 is gone, and the
\* stories cache still holds its rows.
C18_Witness ==
    /\ fn = "cache_features"
    /\ Len(args.features) = 1
    /\ old_features_cache # None
    /\ Len(old_features_cache[1]) = 2
    /\ get_cached_feature(old_features_cache, 1) # Some(args.features[1])
    /\ get_cached_feature(features_cache, 1) = Some(args.features[1])
    /\ get_cached_feature(features_cache, 2) = None
    /\ get_cached_story(stories_cache, 1) # None

\* C19: after a run of 'v1 features' that listed rows (in either output
\* format, also zero rows), the features cache holds exactly the rows listed,
\* in the order listed; likewise the stories cache after 'v1 stories' and
\* 'v1 mine'.
C19_CacheIsLastListing ==
    /\ (fn = "features" /\ ret.listed # None)
       => \A i \in Indexes : get_cached_feature(features_cache, i) = RowAt(ret.listed[1], i)
    /\ (fn \in {"stories", "mine"} /\ ret.listed # None)
       => \A i \in Indexes : get_cached_story(stories_cache, i) = RowAt(ret.listed[1], i)

-----------------------------------------------------------------------------
(* Properties of query_with_config (checked under SpecQuery). *)

\* the filters of a posted payload, the empty list when it has no "filter"
SentFilters(payload) == IF payload.filter = None THEN <<>> ELSE payload.filter[1]

\* C26: an empty or absent select requests [Name, Number] and an empty or
\* absent sort sorts by [Name]; a non-empty select or sort is sent as it is.
\* The filters sent are the parent filter first when a parent is given, then
\* the configuration's filters as they are, then AssetState!='Closed' unless
\* include_done is set, and nothing else.
C26_QueryFallbacksAndFilterOrder ==
    fn = "query_with_config"
    => LET sent == SentFilters(ret)
           parent == args.parent_oid # None /\ args.parent_oid[1] # <<>>
           own == IF args.config_filters = None THEN <<>> ELSE args.config_filters[1]
           p == IF parent THEN 1 ELSE 0
           d == IF args.include_done THEN 0 ELSE 1
       IN  /\ ret.from = args.asset_type
           /\ ret.select = IF args.config_select \in {None, Some(<<>>)}
                           THEN <<F("Name"), F("Number")>> ELSE args.config_select[1]
           /\ ret.sort = IF args.config_sort \in {None, Some(<<>>)}
                         THEN Some(<<F("Name")>>) ELSE args.config_sort
           /\ Len(sent) = p + Len(own) + d
           /\ parent => sent[1] = args.parent_field \o <<"=", "'">> \o args.parent_oid[1] \o <<"'">>
           /\ \A i \in DOMAIN own : sent[p + i] = own[i]
           /\ ~args.include_done => sent[Len(sent)] = NotClosed

\* C26 witness: a call with a parent, an empty select, no sort and
\* configuration filters that name the closed filter themselves posted the
\* minimal select, the sort by Name and five filters.
C26_Witness ==
    /\ fn = "query_with_config"
    /\ args.parent_oid = Some(Oid(Epic, n1))
    /\ args.config_select = Some(<<>>)
    /\ args.config_sort = None
    /\ args.config_filters = Some(<<NotClosed, FilterA, FilterA>>)
    /\ ~args.include_done
    /\ ret.select = <<F("Name"), F("Number")>>
    /\ ret.sort = Some(<<F("Name")>>)
    /\ Len(ret.filter[1]) = 5

-----------------------------------------------------------------------------
(* Properties of the bookmark and default commands (checked under           *)
(* SpecProjects).                                                           *)

\* the OIDs of the bookmarks in bms
Oids(bms) == {bms[i].oid : i \in DOMAIN bms}

\* C21: 'v1 projects default <identifier>'.  When the identifier resolves to a
\* local bookmark, default_project becomes that bookmark's OID and the list
\* is unchanged.  Otherwise, when the identifier looks like a number and the
\* service finds a project, the list has a bookmark with the project's OID
\* and default_project is that OID.  After every successful run
\* default_project is the OID of a bookmark in the list; every other run
\* fails, and a failed run changes neither the bookmarks nor the default.
C21_ProjectsDefault ==
    op = "default"
    => LET local == get_bookmark(old_bookmarks, ident)
           number == \/ Len(ident) >= 2 /\ ident[1] \in {"E", "e"} /\ ident[2] = "-"
                     \/ IsDigit(SelectSeq(ident, LAMBDA c : c # "-"))
           remote == args.answer.project
       IN  /\ local # None
              => /\ ret.exit_code = 0
                 /\ default_project = Some(local[1].oid)
                 /\ bookmarks = old_bookmarks
           /\ (local = None /\ number /\ remote # None)
              => /\ ret.exit_code = 0
                 /\ remote[1].oid \in Oids(bookmarks)
                 /\ default_project = Some(remote[1].oid)
           /\ (local = None /\ ~(number /\ remote # None)) => ret.exit_code = 1
           /\ ret.exit_code = 0
              => default_project # None /\ default_project[1] \in Oids(bookmarks)
           /\ ret.exit_code # 0
              => bookmarks = old_bookmarks /\ default_project = old_default

\* C21 witness: with one bookmark in the list and another default, "E-9" was
\* not found locally, the service found the project, and the run bookmarked
\* it as a second bookmark and made it the default.
C21_Witness ==
    /\ op = "default"
    /\ ident = <<"E", "-", "9">>
    /\ Len(old_bookmarks) = 1
    /\ old_default # None
    /\ get_bookmark(old_bookmarks, ident) = None
    /\ args.answer = Found(Project(Bar, Oid(Epic, n9)))
    /\ bookmarks = Append(old_bookmarks, ProjectBookmark(Bar, Oid(Epic, n9)))
    /\ default_project = Some(Oid(Epic, n9))
    /\ old_default # default_project

\* C27: after any sequence of add_project_bookmark calls (also one that gives
\* an existing name another OID), removals and 'projects default' runs,
\* default_project is unset or the OID of a bookmark in the list.
C27_DefaultIsBookmarked ==
    default_project = None \/ default_project[1] \in Oids(bookmarks)

-----------------------------------------------------------------------------
(* Properties of concurrent saves of the settings file (checked under       *)
(* SpecSave).                                                               *)

\* both processes have loaded, changed and saved
AllSaved == \A p \in Procs : procs[p].pc = "done"

\* C22: when two processes have each loaded the settings file, added their
\* bookmark and saved, in any interleaving, the file holds exactly the text
\* of the Settings object of the process that saved last.
C22_LastWriterWins ==
    (AllSaved /\ fn = "write")
    => settings_file = Some(Dump(procs[args.proc].settings))

-----------------------------------------------------------------------------
(* Properties of the local time entries (checked under SpecTime). *)

\* the stored entry with this id, None when there is none
EntryWithId(file, entry_id) ==
    LET entries == load_time_entries(file)
    IN  IF \E i \in DOMAIN entries : entries[i].id = entry_id
        THEN Some(entries[CHOOSE i \in DOMAIN entries : entries[i].id = entry_id])
        ELSE None

WasSynced(entry_id) ==
    /\ EntryWithId(old_time_entries, entry_id) # None
    /\ EntryWithId(old_time_entries, entry_id)[1].synced

\* the entries that are not synced, in file order, counted from 1
UnsyncedAt(file, i) ==
    LET entries == load_time_entries(file)
        positions == {k \in DOMAIN entries : ~entries[k].synced}
    IN  IF \E k \in positions : Cardinality({j \in positions : j <= k}) = i
        THEN Some(entries[CHOOSE k \in positions : Cardinality({j \in positions : j <= k}) = i])
        ELSE None

\* C28: delete_entry and move_entry on a synced entry return False and leave
\* the stored entries as they were; every entry that was synced before a call
\* is stored and synced after it, on the same story; get_entry_by_index(i)
\* returns the i-th of the unsynced entries (None when there is no such one).
C28_SyncedEntriesAreKept ==
    /\ (fn \in {"delete_entry", "move_entry"} /\ WasSynced(args.entry_id))
       => ret = FALSE /\ time_entries = old_time_entries
    /\ \A id \in EntryIds :
          WasSynced(id)
          => /\ EntryWithId(time_entries, id) # None
             /\ EntryWithId(time_entries, id)[1].synced
             /\ EntryWithId(time_entries, id)[1].story_oid
                  = EntryWithId(old_time_entries, id)[1].story_oid
    /\ fn = "get_entry_by_index"
       => ret = UnsyncedAt(time_entries, args.index) /\ time_entries = old_time_entries

\* C28 witness: delete_entry was refused for a synced entry that is stored
\* in front of an unsynced one.
C28_Witness ==
    /\ fn = "delete_entry"
    /\ WasSynced(args.entry_id)
    /\ ret = FALSE
    /\ Len(load_time_entries(time_entries)) = 2
    /\ load_time_entries(time_entries)[1].id = args.entry_id
    /\ ~load_time_entries(time_entries)[2].synced

\* C28, index case reached: index 1 addressed the second stored entry because
\* the first one is synced.
C28_WitnessIndex ==
    /\ fn = "get_entry_by_index"
    /\ args.index = 1
    /\ Len(load_time_entries(time_entries)) = 2
    /\ load_time_entries(time_entries)[1].synced
    /\ ret = Some(load_time_entries(time_entries)[2])

-----------------------------------------------------------------------------
(* Properties of the story workflow (checked under SpecWorkflow). *)

\* position of a stage in the order backlog, ready, in_progress, review, done
StageIndex(s) == CHOOSE i \in DOMAIN StoryStatus : StoryStatus[i] = s

Neighbouring(a, b) ==
    StageIndex(a) - StageIndex(b) \in {-1, 1}

\* the stages a story can stand on after at most n valid steps from stage a
RECURSIVE ReachableWithin(_, _)
ReachableWithin(a, n) ==
    IF n = 0 THEN {a}
    ELSE LET before == ReachableWithin(a, n - 1)
         IN  before \cup {b \in Range(StoryStatus) : \E s \in before : can_transition(s, b)}

\* C29: can_transition(a, b) holds exactly when a and b are neighbours in the
\* order backlog, ready, in_progress, review, done; a story that went from
\* backlog to done by valid steps stood on ready, in_progress and review in
\* between; every stage can be reached from every stage.
C29_NeighbouringStagesOnly ==
    /\ fn = "can_transition"
       => ret = Neighbouring(args.from_status, args.to_status)
    /\ \A i \in DOMAIN path, j \in DOMAIN path :
          (i < j /\ path[i] = "backlog" /\ path[j] = "done")
          => \A s \in {"ready", "in_progress", "review"} :
                \E k \in (i + 1)..(j - 1) : path[k] = s
    /\ \A a \in Range(StoryStatus) :
          ReachableWithin(a, Len(StoryStatus) - 1) = Range(StoryStatus)

\* C29 witness: a story walked from backlog to done, and can_transition was
\* then asked about the shortcut and refused it.
C29_Witness ==
    /\ path = StoryStatus
    /\ fn = "can_transition"
    /\ args = [from_status |-> "backlog", to_status |-> "done"]
    /\ ret = FALSE

\* C29, the way back reached: a story walked from done to backlog.
C29_WitnessBack ==
    /\ Len(path) = 5
    /\ path[1] = "done"
    /\ path[5] = "backlog"

-----------------------------------------------------------------------------
(* Properties of status changes (checked under SpecStatus). *)

\* the stage the story stood on when the handler ran, None when its status
\* is not mapped to a stage
StageBefore ==
    IF Mapped(args.was) THEN get_status(status_mapping, args.was[1]) ELSE None

\* C30: when 'v1 status' or the status modal has sent a status change for a
\* story whose status was mapped to a stage, the stage asked for is a valid
\* transition from that stage.
C30_SentChangesAreValidTransitions ==
    (/\ fn \in {"status", "_update_status"}
     /\ ret.sent # None
     /\ StageBefore # None)
    => can_transition(StageBefore[1], ret.target_status[1])

====
